---- MODULE Spec2Model ----
(***************************************************************************)
(* Path-guided SGD 1-D layout of odgi (src/algorithms/path_sgd.cpp):       *)
(*   path_linear_sgd               the concurrent driver                   *)
(*   deterministic_path_linear_sgd the seeded single-threaded driver       *)
(*   path_linear_sgd_schedule      the learning-rate schedule              *)
(*   path_linear_sgd_order         the order finalizer                     *)
(* Doubles are modelled as exact rationals <<num, den>> (den > 0, lowest   *)
(* terms); <<0, 0>> is NaN.  Handles are number_bool_packing integers:     *)
(* handle = 2 * (id - 1) + is_reverse.                                     *)
(***************************************************************************)
EXTENDS Integers, Sequences, FiniteSets, TLC

(***************************************************************************)
(* Bounds of the model.                                                    *)
(***************************************************************************)
\* workers stop starting new terms once term_updates has reached this cap
\* (the counter is unbounded in the code); always > min_term_updates
MaxTermUpdates == 2
\* largest value the Zipf distribution is configured with (space)
MaxSpace == 2
\* values a layout coordinate takes in the order finalizer's inputs: 0..MaxCoord
MaxCoord == 2

(***************************************************************************)
(* Doubles as rationals.  The arithmetic is written as functions, which    *)
(* take their arguments by value.                                          *)
(***************************************************************************)
Doubles == Int \X Int

GCD[a \in Nat, b \in Nat] == IF b = 0 THEN a ELSE GCD[b, a % b]

IAbs(n) == IF n < 0 THEN -n ELSE n

NaN == <<0, 0>>

IsNaN(x) == x[2] = 0

Rat[n \in Int, d \in Int] ==
    IF d = 0 THEN NaN
    ELSE LET g == GCD[IAbs(n), IAbs(d)]
             s == IF d < 0 THEN -1 ELSE 1
         IN  <<s * (n \div g), s * (d \div g)>>

Int2R(n) == <<n, 1>>

\* over the least common denominator, so that intermediate products stay
\* small
RAdd[a \in Doubles, b \in Doubles] == IF IsNaN(a) \/ IsNaN(b) THEN NaN
              ELSE LET g == GCD[IAbs(a[2]), IAbs(b[2])]
                   IN  Rat[a[1] * (b[2] \div g) + b[1] * (a[2] \div g),
                           (a[2] \div g) * b[2]]

RSub[a \in Doubles, b \in Doubles] == IF IsNaN(a) \/ IsNaN(b) THEN NaN
              ELSE LET g == GCD[IAbs(a[2]), IAbs(b[2])]
                   IN  Rat[a[1] * (b[2] \div g) - b[1] * (a[2] \div g),
                           (a[2] \div g) * b[2]]

\* cross-cancelled so that intermediate products stay small
RMul[a \in Doubles, b \in Doubles] == IF IsNaN(a) \/ IsNaN(b) THEN NaN
              ELSE LET g1 == GCD[IAbs(a[1]), b[2]]
                       g2 == GCD[IAbs(b[1]), a[2]]
                       h1 == IF g1 = 0 THEN 1 ELSE g1
                       h2 == IF g2 = 0 THEN 1 ELSE g2
                   IN  Rat[(a[1] \div h1) * (b[1] \div h2),
                           (a[2] \div h2) * (b[2] \div h1)]

\* the divisors of the code (term_dist, mag, 2) are never zero
RDiv[a \in Doubles, b \in Doubles] == IF IsNaN(a) \/ IsNaN(b) \/ b[1] = 0 THEN NaN
              ELSE RMul[a, Rat[b[2], b[1]]]

\* IEEE comparisons: every comparison with NaN is false
RLt(a, b) == /\ ~IsNaN(a) /\ ~IsNaN(b)
             /\ LET g == GCD[IAbs(a[2]), IAbs(b[2])]
                IN  a[1] * (b[2] \div g) < b[1] * (a[2] \div g)

RLe(a, b) == /\ ~IsNaN(a) /\ ~IsNaN(b)
             /\ LET g == GCD[IAbs(a[2]), IAbs(b[2])]
                IN  a[1] * (b[2] \div g) <= b[1] * (a[2] \div g)

RGt(a, b) == RLt(b, a)

REq(a, b) == ~IsNaN(a) /\ ~IsNaN(b) /\ a = b

RAbs(a) == IF IsNaN(a) THEN NaN ELSE <<IAbs(a[1]), a[2]>>

Zero == <<0, 1>>

One == <<1, 1>>

Two == <<2, 1>>

(***************************************************************************)
(* The graph (read-only input).  Node ids are compact, 1..N; len[id] is    *)
(* the node's sequence length; edges are unordered pairs of node ids;      *)
(* paths[p] is the handle sequence of path handle p.  for_each_handle      *)
(* visits the forward handles in ascending id order.                       *)
(***************************************************************************)
Handle(id, rev) == 2 * (id - 1) + (IF rev THEN 1 ELSE 0)

unpack_number(h) == h \div 2

get_is_reverse(h) == h % 2 = 1

get_id(h) == unpack_number(h) + 1

Graphs == <<
    \* 1: path 1 = 1+,2-   path 2 = 2+   node 3 carries no path step
    [len   |-> <<1, 1, 2>>,
     edges |-> {{1, 2}},
     paths |-> << <<Handle(1, FALSE), Handle(2, TRUE)>>, <<Handle(2, FALSE)>> >>],
    \* 2: one node of length 1 visited once by one path
    [len   |-> <<1>>,
     edges |-> {},
     paths |-> << <<Handle(1, FALSE)>> >>],
    \* 3: components {1,2,4} and {3}; one path through the first
    [len   |-> <<1, 1, 1, 1>>,
     edges |-> {{1, 2}, {2, 4}},
     paths |-> << <<Handle(1, FALSE), Handle(2, FALSE), Handle(4, FALSE)>> >>],
    \* 4: components {1,2} and {3,4} (seed scenario S3)
    [len   |-> <<1, 1, 1, 1>>,
     edges |-> {{1, 2}, {3, 4}},
     paths |-> << <<Handle(1, FALSE), Handle(2, FALSE)>>,
                  <<Handle(3, FALSE), Handle(4, FALSE)>> >>],
    \* 5: one path that leaves node 1 and comes back to it
    [len   |-> <<1, 1>>,
     edges |-> {{1, 2}},
     paths |-> << <<Handle(1, FALSE), Handle(2, FALSE), Handle(1, FALSE)>> >>]
>>

get_node_count(G) == Len(G.len)

get_length(G, h) == G.len[get_id(h)]

\* the handles in for_each_handle order
for_each_handle(G) == [k \in 1..get_node_count(G) |-> Handle(k, FALSE)]

PathHandles(G) == 1..Len(G.paths)

(***************************************************************************)
(* The path index (xp::XP), built over every path of the graph.            *)
(***************************************************************************)
RECURSIVE SumLen(_, _, _)
\* total length of the first k steps of path p
SumLen(G, p, k) ==
    IF k = 0 THEN 0 ELSE SumLen(G, p, k - 1) + get_length(G, G.paths[p][k])

get_path_length(G, p) == SumLen(G, p, Len(G.paths[p]))

\* a step handle is <<path, 0-based step rank>>
get_position_of_step(G, s) == SumLen(G, s[1], s[2])

get_handle_of_step(G, s) == G.paths[s[1]][s[2] + 1]

\* the step of path p covering nucleotide offset pos, 0 <= pos < L(p)
get_step_at_position(G, p, pos) ==
    LET r == CHOOSE r \in 0..(Len(G.paths[p]) - 1) :
                 /\ SumLen(G, p, r) <= pos
                 /\ pos < SumLen(G, p, r + 1)
    IN  <<p, r>>

\* the steps on node id, by path and rank
StepsOnNode(G, id) ==
    {s \in UNION {{<<p, r>> : r \in 0..(Len(G.paths[p]) - 1)} : p \in PathHandles(G)} :
        get_id(get_handle_of_step(G, s)) = id}

RECURSIVE SetToSeq(_)
\* a set of steps as a sequence in (path, rank) order
SetToSeq(S) ==
    IF S = {} THEN <<>>
    ELSE LET m == CHOOSE x \in S : \A y \in S :
                      x[1] < y[1] \/ (x[1] = y[1] /\ x[2] <= y[2])
         IN  <<m>> \o SetToSeq(S \ {m})

RECURSIVE NpLayout(_, _)
\* the np vectors up to node id: per node one boundary entry (bv = 1)
\* followed by one entry per path step on the node (bv = 0) holding the
\* path id (npi) and the 1-based step rank (nr)
NpLayout(G, id) ==
    IF id = 0 THEN <<>>
    ELSE LET steps == SetToSeq(StepsOnNode(G, id))
         IN  NpLayout(G, id - 1)
             \o <<[bv |-> 1, npi |-> 0, nr |-> 0]>>
             \o [k \in 1..Len(steps) |->
                    [bv |-> 0, npi |-> steps[k][1], nr |-> steps[k][2] + 1]]

Np(G) == NpLayout(G, get_node_count(G))

\* the vectors are 0-based in the code
np_bv(G, k) == Np(G)[k + 1].bv

npi_iv(G, k) == Np(G)[k + 1].npi

nr_iv(G, k) == Np(G)[k + 1].nr

np_bv_size(G) == Len(Np(G))

\* position of the k-th set bit of np_bv, k >= 1
np_bv_select(G, k) ==
    CHOOSE q \in 0..(np_bv_size(G) - 1) :
        /\ np_bv(G, q) = 1
        /\ Cardinality({u \in 0..q : np_bv(G, u) = 1}) = k

(***************************************************************************)
(* The path-interval tree over the selected paths, in the caller's order.  *)
(***************************************************************************)
RECURSIVE TotalLen(_, _, _)
\* total_path_len_in_nucleotides after the first k selected paths
TotalLen(G, use, k) ==
    IF k = 0 THEN 0 ELSE TotalLen(G, use, k - 1) + get_path_length(G, use[k])

path_nucleotide_tree(G, use) ==
    [k \in 1..Len(use) |->
        [st   |-> TotalLen(G, use, k - 1),
         en   |-> TotalLen(G, use, k),
         data |-> use[k]]]

total_path_len_in_nucleotides(G, use) == TotalLen(G, use, Len(use))

\* IITree::overlap(st, en): the intervals [s, e) with s < en and st < e
overlap(tree, st, en) ==
    {k \in 1..Len(tree) : tree[k].st < en /\ st < tree[k].en}

\* the range of the uniform distribution dis
Dis(G, c) ==
    IF c.sample_from_nodes THEN 1..get_node_count(G)
    ELSE IF ~c.sample_from_paths THEN 0..(np_bv_size(G) - 1)
    ELSE 0..(total_path_len_in_nucleotides(G, c.use) - 1)

\* the values of the Zipfian distribution on [1, space]
Zipfian(c) == 1..c.space

Skip(why) == [kind |-> "skip", why |-> why]

(***************************************************************************)
(* One term of the worker loop: pos, k (the per-node path pick), z (the    *)
(* Zipf value) and flip are the draws of the thread's generator.           *)
(***************************************************************************)
\* the term distance taken between the steps' starts, whatever the
\* orientation
worker_term_tail_starts(G, path, pos_in_path_a, path_len, z, flip) ==
    LET back  == flip = 1
        room  == path_len - pos_in_path_a
        skipB == back /\ z > pos_in_path_a /\ pos_in_path_a = 0
        skipF == ~back /\ z > room /\ room = 0
        zipf_int ==
            IF back
            THEN (IF z > pos_in_path_a THEN z % pos_in_path_a ELSE z)
            ELSE (IF z > room THEN z % room ELSE z)
        pos_in_path_b ==
            IF back THEN pos_in_path_a - zipf_int ELSE pos_in_path_a + zipf_int
        step_a == get_step_at_position(G, path, pos_in_path_a)
        step_b == get_step_at_position(G, path, pos_in_path_b)
        term_i == get_handle_of_step(G, step_a)
        term_j == get_handle_of_step(G, step_b)
        term_dist == IAbs(get_position_of_step(G, step_a)
                          - get_position_of_step(G, step_b))
    IN  IF skipB THEN Skip("pos_a_zero")
        ELSE IF skipF THEN Skip("no_room")
        ELSE IF term_dist = 0 THEN Skip("d_zero")
        ELSE [kind   |-> "term",
              path   |-> path,
              pos_a  |-> pos_in_path_a,
              pos_b  |-> pos_in_path_b,
              step_a |-> step_a,
              step_b |-> step_b,
              term_i |-> term_i,
              term_j |-> term_j,
              d      |-> term_dist]

\* the Zipf value not reduced to the room left in the path; a query past
\* the path's end answers with its last step
worker_term_tail_unreduced(G, path, pos_in_path_a, path_len, z, flip) ==
    LET back  == flip = 1
        room  == path_len - pos_in_path_a
        skipB == back /\ z > pos_in_path_a /\ pos_in_path_a = 0
        skipF == ~back /\ z > room /\ room = 0
        zipf_int ==
            IF back
            THEN (IF z > pos_in_path_a THEN z % pos_in_path_a ELSE z)
            ELSE z
        pos_in_path_b ==
            IF back THEN pos_in_path_a - zipf_int ELSE pos_in_path_a + zipf_int
        step_a == get_step_at_position(G, path, pos_in_path_a)
        step_b == get_step_at_position(G, path,
                      IF pos_in_path_b > path_len THEN path_len ELSE pos_in_path_b)
        term_i == get_handle_of_step(G, step_a)
        term_j == get_handle_of_step(G, step_b)
        adj_a  == get_position_of_step(G, step_a)
                  + (IF get_is_reverse(term_i) THEN get_length(G, term_i) ELSE 0)
        adj_b  == get_position_of_step(G, step_b)
                  + (IF get_is_reverse(term_j) THEN get_length(G, term_j) ELSE 0)
        term_dist == IAbs(adj_a - adj_b)
    IN  IF skipB THEN Skip("pos_a_zero")
        ELSE IF skipF THEN Skip("no_room")
        ELSE IF term_dist = 0 THEN Skip("d_zero")
        ELSE [kind   |-> "term",
              path   |-> path,
              pos_a  |-> pos_in_path_a,
              pos_b  |-> pos_in_path_b,
              step_a |-> step_a,
              step_b |-> step_b,
              term_i |-> term_i,
              term_j |-> term_j,
              d      |-> term_dist]

\* from the Zipf draw to the term distance
worker_term_tail(G, path, pos_in_path_a, path_len, z, flip) ==
    LET back  == flip = 1
        room  == path_len - pos_in_path_a
        skipB == back /\ z > pos_in_path_a /\ pos_in_path_a = 0
        skipF == ~back /\ z > room /\ room = 0
        zipf_int ==
            IF back
            THEN (IF z > pos_in_path_a THEN z % pos_in_path_a ELSE z)
            ELSE (IF z > room THEN z % room ELSE z)
        pos_in_path_b ==
            IF back THEN pos_in_path_a - zipf_int ELSE pos_in_path_a + zipf_int
        step_a == get_step_at_position(G, path, pos_in_path_a)
        step_b == get_step_at_position(G, path, pos_in_path_b)
        term_i == get_handle_of_step(G, step_a)
        term_j == get_handle_of_step(G, step_b)
        adj_a  == get_position_of_step(G, step_a)
                  + (IF get_is_reverse(term_i) THEN get_length(G, term_i) ELSE 0)
        adj_b  == get_position_of_step(G, step_b)
                  + (IF get_is_reverse(term_j) THEN get_length(G, term_j) ELSE 0)
        term_dist == IAbs(adj_a - adj_b)
    IN  IF skipB THEN Skip("pos_a_zero")
        ELSE IF skipF THEN Skip("no_room")
        ELSE IF term_dist = 0 THEN Skip("d_zero")
        ELSE [kind   |-> "term",
              path   |-> path,
              pos_a  |-> pos_in_path_a,
              pos_b  |-> pos_in_path_b,
              step_a |-> step_a,
              step_b |-> step_b,
              term_i |-> term_i,
              term_j |-> term_j,
              d      |-> term_dist]

\* the branch of the loop body the flags select: sample_from_paths is
\* tested first
worker_branch(c) ==
    IF c.sample_from_paths THEN "paths"
    ELSE IF c.sample_from_nodes THEN "nodes"
    ELSE "steps"

worker_term(G, c, pos, k, z, flip) ==
    IF worker_branch(c) = "paths"
    THEN LET tree == path_nucleotide_tree(G, c.use)
             a    == overlap(tree, pos, pos + 1)
         IN  IF a = {} THEN [kind |-> "fatal", pos |-> pos]
             ELSE LET p0 == CHOOSE q \in a : \A r \in a : q <= r
                      path == tree[p0].data
                  IN  worker_term_tail(G, path, pos - tree[p0].st,
                                       get_path_length(G, path) - 1, z, flip)
    ELSE IF worker_branch(c) = "nodes"
    THEN LET node_index == np_bv_select(G, pos)
             next_node_index ==
                 IF pos = get_node_count(G) THEN np_bv_size(G)
                 ELSE np_bv_select(G, pos + 1)
             hit_num_paths == next_node_index - node_index - 1
         IN  IF hit_num_paths = 0 THEN Skip("no_paths")
             ELSE LET path_pos_in_np_iv == node_index + k
                      path == npi_iv(G, path_pos_in_np_iv)
                      s_h  == <<path, nr_iv(G, path_pos_in_np_iv) - 1>>
                  IN  worker_term_tail(G, path, get_position_of_step(G, s_h),
                                       get_path_length(G, path) - 1, z, flip)
    ELSE IF np_bv(G, pos) = 1 THEN Skip("np_bv")
    ELSE LET path == npi_iv(G, pos)
             s_h  == <<path, nr_iv(G, pos) - 1>>
         IN  worker_term_tail(G, path, get_position_of_step(G, s_h),
                              get_path_length(G, path) - 1, z, flip)

\* dis_path drawing the first path step of the node only
HitNumPathsFirstOnly(G, pos) ==
    IF (IF pos = get_node_count(G) THEN np_bv_size(G) ELSE np_bv_select(G, pos + 1))
       - np_bv_select(G, pos) - 1 > 0
    THEN 1 ELSE 0

\* the number of path steps on the node of rank pos (the range of dis_path)
HitNumPaths(G, pos) ==
    (IF pos = get_node_count(G) THEN np_bv_size(G) ELSE np_bv_select(G, pos + 1))
    - np_bv_select(G, pos) - 1

\* the draws one loop iteration can make: <<pos, k, z, flip>>; k is drawn
\* only in the node branch (k = 0 stands for "not drawn")
Draws(G, c) ==
    {<<pos, k, z, flip>> \in Dis(G, c) \X (0..Len(Np(G))) \X Zipfian(c) \X {0, 1} :
        IF worker_branch(c) = "nodes" /\ HitNumPaths(G, pos) > 0
        THEN k \in 1..HitNumPaths(G, pos)
        ELSE k = 0}

\* what one loop iteration of a worker can draw
WorkerOutcomes(Gr, c) ==
    {worker_term(Gr, c, dr[1], dr[2], dr[3], dr[4]) : dr \in Draws(Gr, c)}

(***************************************************************************)
(* The update kernel's arithmetic.                                         *)
(***************************************************************************)
\* a zero difference left as it is
dx_unguarded == Zero

\* dx = 1e-9 replaces a zero difference
dx_guard == <<1, 1000000000>>

\* mu = eta * w_ij capped at 1
worker_mu[eta_now \in Doubles, d \in Int] ==
    LET mu == RMul[eta_now, RDiv[One, Int2R(d)]]
    IN  IF RGt(mu, One) THEN One ELSE mu

worker_dx[xi \in Doubles, xj \in Doubles] ==
    LET dx == RSub[xi, xj]
    IN  IF REq(dx, Zero) THEN dx_guard ELSE dx

worker_Delta[mu \in Doubles, dx \in Doubles, d \in Int] == RDiv[RMul[mu, RSub[RAbs(dx), Int2R(d)]], Two]

worker_r_x[Delta \in Doubles, dx \in Doubles] == RMul[RDiv[Delta, RAbs(dx)], dx]

(***************************************************************************)
(* The learning-rate schedule.  The run's eps is eta_max * decay^(T-1), so *)
(* that exp(-lambda) = decay is rational; with iter_max = 1 the code       *)
(* divides by iter_max - 1 = 0: lambda is infinite, -lambda * 0 is NaN and *)
(* exp(-lambda * n) is 0 for n > 0.                                        *)
(***************************************************************************)
RPow[b \in Doubles, n \in Nat] == IF n = 0 THEN One ELSE RMul[b, RPow[b, n - 1]]

path_linear_sgd_schedule(eta_max, decay, iter_max, iter_with_max_learning_rate) ==
    [k \in 1..iter_max |->
        LET t == k - 1
            n == IAbs(t - iter_with_max_learning_rate)
        IN  IF iter_max = 1
            THEN (IF n = 0 THEN NaN ELSE Zero)
            ELSE RMul[eta_max, RPow[decay, n]]]

(***************************************************************************)
(* The inputs of a run: graph, selected paths, flags and hyperparameters.  *)
(***************************************************************************)
\* largest iter_max of a run
MaxIter == 2
\* the worker thread counts of the runs explored
ThreadCounts == {0, 1, 2}
\* the iterations at which the explored schedules peak
PeakIterations == {0, 1}

UsePaths(g) == IF g = 1 THEN {<<1>>, <<2>>, <<1, 2>>} ELSE {<<1>>}

Configs ==
    {c \in [g                 : {1, 2},
            use               : {<<1>>, <<2>>, <<1, 2>>},
            sample_from_paths : BOOLEAN,
            sample_from_nodes : BOOLEAN,
            iter_max          : 1..MaxIter,
            iter_with_max_learning_rate : PeakIterations,
            min_term_updates  : 0..(MaxTermUpdates - 1),
            delta             : {Zero, One},
            eta_max           : {Two},
            decay             : {<<1, 2>>},
            space             : {MaxSpace},
            nthreads          : ThreadCounts,
            snapshot          : BOOLEAN,
            path_sgd_deterministic : BOOLEAN] :
        /\ c.use \in UsePaths(c.g)
        /\ c.iter_with_max_learning_rate < c.iter_max
        \* the deterministic driver takes no thread count
        /\ c.path_sgd_deterministic => c.nthreads = 1
        \* a schedule that rises first is run with the controller ticking at
        \* the workers' cap
        /\ c.iter_with_max_learning_rate > 0 =>
              c.min_term_updates = MaxTermUpdates - 1
        \* runs of several workers are explored on the shortest schedule only
        /\ c.nthreads > 1 =>
              /\ c.g = 1 /\ c.use = <<1, 2>>
              /\ c.sample_from_paths /\ ~c.sample_from_nodes
              /\ c.iter_max = 1 /\ c.min_term_updates = 0
              /\ c.delta = Zero /\ ~c.snapshot}

\* what the term sampler reads of the inputs
SamplerKey(c) ==
    [g |-> c.g, use |-> c.use, sample_from_paths |-> c.sample_from_paths,
     sample_from_nodes |-> c.sample_from_nodes, space |-> c.space]

SamplerKeys == {SamplerKey(c) : c \in Configs}

\* the outcomes of the worker's draws, tabulated per input
WorkerTable == [k \in SamplerKeys |-> WorkerOutcomes(Graphs[k.g], k)]

(***************************************************************************)
(* One term of the deterministic driver's inner loop, from the draws of    *)
(* its seeded generator.                                                   *)
(***************************************************************************)
\* from the Zipf draw to the term distance
det_term_tail(Gr, path, pos_in_path_a, path_len, z, flip) ==
    LET back  == flip = 1
        room  == path_len - pos_in_path_a
        skipB == back /\ z > pos_in_path_a /\ pos_in_path_a = 0
        skipF == ~back /\ z > room /\ room = 0
        zipf_int ==
            IF back
            THEN (IF z > pos_in_path_a THEN z % pos_in_path_a ELSE z)
            ELSE (IF z > room THEN z % room ELSE z)
        pos_in_path_b ==
            IF back THEN pos_in_path_a - zipf_int ELSE pos_in_path_a + zipf_int
        step_a == get_step_at_position(Gr, path, pos_in_path_a)
        step_b == get_step_at_position(Gr, path, pos_in_path_b)
        term_i == get_handle_of_step(Gr, step_a)
        term_j == get_handle_of_step(Gr, step_b)
        adj_a  == get_position_of_step(Gr, step_a)
                  + (IF get_is_reverse(term_i) THEN get_length(Gr, term_i) ELSE 0)
        adj_b  == get_position_of_step(Gr, step_b)
                  + (IF get_is_reverse(term_j) THEN get_length(Gr, term_j) ELSE 0)
        term_dist == IAbs(adj_a - adj_b)
    IN  IF skipB THEN Skip("pos_a_zero")
        ELSE IF skipF THEN Skip("no_room")
        ELSE IF term_dist = 0 THEN Skip("d_zero")
        ELSE [kind   |-> "term",
              path   |-> path,
              pos_a  |-> pos_in_path_a,
              pos_b  |-> pos_in_path_b,
              step_a |-> step_a,
              step_b |-> step_b,
              term_i |-> term_i,
              term_j |-> term_j,
              d      |-> term_dist]

\* the branch of the inner loop body the flags select
det_branch(c) ==
    IF c.sample_from_paths THEN "paths"
    ELSE IF c.sample_from_nodes THEN "nodes"
    ELSE "steps"

det_term(Gr, c, pos, k, z, flip) ==
    IF det_branch(c) = "paths"
    THEN LET tree == path_nucleotide_tree(Gr, c.use)
             a    == overlap(tree, pos, pos + 1)
         IN  IF a = {} THEN [kind |-> "fatal", pos |-> pos]
             ELSE LET p0 == CHOOSE q \in a : \A r \in a : q <= r
                      path == tree[p0].data
                  IN  det_term_tail(Gr, path, pos - tree[p0].st,
                                    get_path_length(Gr, path) - 1, z, flip)
    ELSE IF det_branch(c) = "nodes"
    THEN LET node_index == np_bv_select(Gr, pos)
             next_node_index ==
                 IF pos = get_node_count(Gr) THEN np_bv_size(Gr)
                 ELSE np_bv_select(Gr, pos + 1)
             hit_num_paths == next_node_index - node_index - 1
         IN  IF hit_num_paths = 0 THEN Skip("no_paths")
             ELSE LET path_pos_in_np_iv == node_index + k
                      path == npi_iv(Gr, path_pos_in_np_iv)
                      s_h  == <<path, nr_iv(Gr, path_pos_in_np_iv) - 1>>
                  IN  det_term_tail(Gr, path, get_position_of_step(Gr, s_h),
                                    get_path_length(Gr, path) - 1, z, flip)
    ELSE IF np_bv(Gr, pos) = 1 THEN Skip("np_bv")
    ELSE LET path == npi_iv(Gr, pos)
             s_h  == <<path, nr_iv(Gr, pos) - 1>>
         IN  det_term_tail(Gr, path, get_position_of_step(Gr, s_h),
                           get_path_length(Gr, path) - 1, z, flip)

\* what one inner iteration can draw
DetOutcomes(Gr, c) ==
    {det_term(Gr, c, dr[1], dr[2], dr[3], dr[4]) : dr \in Draws(Gr, c)}

\* the outcomes of the deterministic driver's draws, tabulated per input
DetTable == [k \in SamplerKeys |-> DetOutcomes(Graphs[k.g], k)]

VARIABLES
    cfg,              \* the inputs of the run
    main,             \* position of the calling thread
    X,                \* the coordinates, indexed by node rank 0..N-1
    term_updates,     \* updates since the last tick
    eta,              \* the current learning rate
    Delta_max,        \* the largest |Delta| published since the last reset
    work_todo,        \* the run flag
    iteration,        \* the controller's (or the outer loop's) iteration
    snapshots,        \* the caller's list of snapshot layouts
    fatal,            \* exit(1) was called
    checker,          \* the controller thread
    snapshot_thread,  \* the snapshot thread
    workers,          \* the worker threads
    term_update,      \* the deterministic driver's inner loop counter
    det,              \* the deterministic driver's loop-body locals
    X_final,          \* the returned layout
    draws,            \* what the run's generators can draw (fixed by the inputs)
    fin,              \* the order finalizer's locals
    applied_above_delta, \* history: an update applied to X since Delta_max was
                      \* last read for the stopping test had |Delta| > delta
    updates_after_stop,  \* history: per worker, its stores into X[j] made
                      \* while work_todo was false
    extract           \* odgi extract -q: the walk over the nodes and keep_bv

\* odgi extract not running
IdleExtract == [pc |-> "idle"]

vars == <<cfg, main, X, term_updates, eta, Delta_max, work_todo, iteration,
          snapshots, fatal, checker, snapshot_thread, workers, term_update, det,
          X_final, draws, fin, applied_above_delta, updates_after_stop,
          extract>>

G == Graphs[cfg.g]

etas == path_linear_sgd_schedule(cfg.eta_max, cfg.decay, cfg.iter_max,
                                 cfg.iter_with_max_learning_rate)

RECURSIVE PrefixLen(_, _)
\* the sum of the lengths of the first k handles of for_each_handle
PrefixLen(Gr, k) ==
    IF k = 0 THEN 0
    ELSE PrefixLen(Gr, k - 1) + get_length(Gr, for_each_handle(Gr)[k])

\* X seeded with len stored after it is advanced
InitialXAdvanced(Gr) ==
    [n \in 0..(get_node_count(Gr) - 1) |->
        LET k == CHOOSE k \in 1..get_node_count(Gr) :
                     unpack_number(for_each_handle(Gr)[k]) = n
        IN  Int2R(PrefixLen(Gr, k))]

\* X seeded with the graph order
InitialX(Gr) ==
    [n \in 0..(get_node_count(Gr) - 1) |->
        LET k == CHOOSE k \in 1..get_node_count(Gr) :
                     unpack_number(for_each_handle(Gr)[k]) = n
        IN  Int2R(PrefixLen(Gr, k - 1))]

IdleWorker ==
    [pc |-> "idle", last |-> "none", branch |-> "none", path |-> 0, i |-> 0,
     j |-> 0, d |-> 0,
     mu |-> Zero, dx |-> Zero, Delta |-> Zero, r_x |-> Zero, tmp |-> Zero,
     tu |-> 0]

IdleDet == [last |-> "none", branch |-> "none", path |-> 0, i |-> 0, j |-> 0,
            d |-> 0, Delta |-> Zero]

\* the order finalizer before the driver has returned
IdleFin ==
    [pc |-> "idle", j |-> 0,
     weak_components_map |-> [size |-> 0, data |-> <<>>],
     handle_layout |-> <<>>, order |-> <<>>, snapshots |-> <<>>]

\* the state when the threads are about to be launched (concurrent driver)
\* or the outer loop is about to start (deterministic driver)
InitOf(c) ==
    /\ cfg = c
    /\ main = IF c.path_sgd_deterministic THEN "det_outer" ELSE "launch"
    /\ X = InitialX(Graphs[c.g])
    /\ term_updates = 0
    /\ eta = path_linear_sgd_schedule(c.eta_max, c.decay, c.iter_max,
                                      c.iter_with_max_learning_rate)[1]
    /\ Delta_max = Zero
    /\ work_todo = TRUE
    /\ iteration = 0
    /\ snapshots = <<>>
    /\ fatal = FALSE
    /\ checker = [pc |-> "idle"]
    /\ snapshot_thread = [pc |-> "idle", iter |-> 0, X_iter |-> <<>>]
    /\ workers = [w \in 1..(IF c.path_sgd_deterministic THEN 0 ELSE c.nthreads)
                    |-> IdleWorker]
    /\ term_update = 0
    /\ det = IdleDet
    /\ X_final = <<>>
    /\ draws = [worker |-> WorkerTable[SamplerKey(c)],
                det    |-> DetTable[SamplerKey(c)]]
    /\ fin = IdleFin
    /\ applied_above_delta = FALSE
    /\ updates_after_stop = [w \in DOMAIN workers |-> 0]
    /\ extract = IdleExtract

Init == \E c \in Configs : InitOf(c)

(***************************************************************************)
(* The concurrent driver: main thread.                                     *)
(***************************************************************************)
\* std::thread checker, snapshot_thread; workers.emplace_back for each tid
Launch ==
    /\ main = "launch" /\ ~fatal
    /\ main' = "join_workers"
    /\ checker' = [checker EXCEPT !.pc = "while"]
    /\ snapshot_thread' = [snapshot_thread EXCEPT !.pc = "while"]
    /\ workers' = [w \in DOMAIN workers |-> [workers[w] EXCEPT !.pc = "while"]]
    /\ UNCHANGED <<extract, cfg, draws, fin, applied_above_delta, updates_after_stop,
                   X, term_updates, eta, Delta_max, work_todo, iteration,
                   snapshots, fatal, term_update, det, X_final>>

\* the main thread going on without waiting for the workers
JoinWorkersDetached ==
    /\ main = "join_workers" /\ ~fatal
    /\ main' = "join_snapshot"
    /\ UNCHANGED <<extract, cfg, draws, fin, applied_above_delta, updates_after_stop,
                   X, term_updates, eta, Delta_max, work_todo, iteration,
                   snapshots, fatal, checker, snapshot_thread, workers,
                   term_update, det, X_final>>

\* workers[t].join() for every t
JoinWorkers ==
    /\ main = "join_workers" /\ ~fatal
    /\ \A w \in DOMAIN workers : workers[w].pc = "exit"
    /\ main' = "join_snapshot"
    /\ UNCHANGED <<extract, cfg, draws, fin, applied_above_delta, updates_after_stop,
                   X, term_updates, eta, Delta_max, work_todo, iteration,
                   snapshots, fatal, checker, snapshot_thread, workers,
                   term_update, det, X_final>>

JoinSnapshot ==
    /\ main = "join_snapshot" /\ ~fatal
    /\ snapshot_thread.pc = "exit"
    /\ main' = "join_checker"
    /\ UNCHANGED <<extract, cfg, draws, fin, applied_above_delta, updates_after_stop,
                   X, term_updates, eta, Delta_max, work_todo, iteration,
                   snapshots, fatal, checker, snapshot_thread, workers,
                   term_update, det, X_final>>

JoinChecker ==
    /\ main = "join_checker" /\ ~fatal
    /\ checker.pc = "exit"
    /\ main' = "final"
    /\ UNCHANGED <<extract, cfg, draws, fin, applied_above_delta, updates_after_stop,
                   X, term_updates, eta, Delta_max, work_todo, iteration,
                   snapshots, fatal, checker, snapshot_thread, workers,
                   term_update, det, X_final>>

\* X_final[i++] = x.load() for every x; return X_final
ReturnLayout ==
    /\ main = "final" /\ ~fatal
    /\ X_final' = [k \in 1..get_node_count(G) |-> X[k - 1]]
    /\ main' = "returned"
    /\ UNCHANGED <<extract, cfg, draws, fin, applied_above_delta, updates_after_stop,
                   X, term_updates, eta, Delta_max, work_todo, iteration,
                   snapshots, fatal, checker, snapshot_thread, workers,
                   term_update, det>>

(***************************************************************************)
(* The concurrent driver: worker tid w.  Each action is one atomic load or *)
(* store of the loop body, with the local computation that follows it.     *)
(***************************************************************************)
SetWorker(w, r) == workers' = [workers EXCEPT ![w] = r]

\* the loop test passing with the flag cleared until the worker has stored
\* two more updates
WorkerWhileUntilApplied(w) ==
    /\ workers[w].pc = "while" /\ ~fatal
    /\ IF work_todo \/ updates_after_stop[w] < 2
       THEN /\ term_updates < MaxTermUpdates
            /\ SetWorker(w, [workers[w] EXCEPT !.pc = "sample"])
       ELSE SetWorker(w, [IdleWorker EXCEPT !.pc = "exit",
                                            !.last = workers[w].last,
                                            !.branch = workers[w].branch])
    /\ UNCHANGED <<extract, cfg, draws, fin, applied_above_delta, updates_after_stop,
                   main, X, term_updates, eta, Delta_max, work_todo,
                   iteration, snapshots, fatal, checker, snapshot_thread,
                   term_update, det, X_final>>

\* while (work_todo.load())
WorkerWhile(w) ==
    /\ workers[w].pc = "while" /\ ~fatal
    /\ IF work_todo
       THEN /\ term_updates < MaxTermUpdates
            /\ SetWorker(w, [workers[w] EXCEPT !.pc = "sample"])
       ELSE SetWorker(w, [IdleWorker EXCEPT !.pc = "exit",
                                            !.last = workers[w].last,
                                            !.branch = workers[w].branch])
    /\ UNCHANGED <<extract, cfg, draws, fin, applied_above_delta, updates_after_stop,
                   main, X, term_updates, eta, Delta_max, work_todo,
                   iteration, snapshots, fatal, checker, snapshot_thread,
                   term_update, det, X_final>>

\* the skip counted as an update
WorkerSkipCounted(w) ==
    /\ workers[w].pc = "sample" /\ ~fatal
    /\ \E t \in draws.worker :
              /\ t.kind = "skip"
              /\ SetWorker(w, [workers[w] EXCEPT !.pc = "while", !.last = t.why,
                                                 !.branch = worker_branch(cfg)])
    /\ term_updates' = term_updates + 1
    /\ UNCHANGED <<extract, cfg, draws, fin, applied_above_delta, updates_after_stop,
                   main, X, eta, Delta_max, work_todo,
                   iteration, snapshots, fatal, checker, snapshot_thread,
                   term_update, det, X_final>>

\* a draw that hits a skip condition: continue
WorkerSkip(w) ==
    /\ workers[w].pc = "sample" /\ ~fatal
    /\ \E t \in draws.worker :
              /\ t.kind = "skip"
              /\ SetWorker(w, [workers[w] EXCEPT !.pc = "while", !.last = t.why,
                                                 !.branch = worker_branch(cfg)])
    /\ UNCHANGED <<extract, cfg, draws, fin, applied_above_delta, updates_after_stop,
                   main, X, term_updates, eta, Delta_max, work_todo,
                   iteration, snapshots, fatal, checker, snapshot_thread,
                   term_update, det, X_final>>

\* no overlapping intervals at the drawn position: exit(1)
WorkerFatal(w) ==
    /\ workers[w].pc = "sample" /\ ~fatal
    /\ \E t \in draws.worker : t.kind = "fatal"
    /\ fatal' = TRUE
    /\ SetWorker(w, [workers[w] EXCEPT !.last = "fatal",
                                       !.branch = worker_branch(cfg)])
    /\ UNCHANGED <<extract, cfg, draws, fin, applied_above_delta, updates_after_stop,
                   main, X, term_updates, eta, Delta_max, work_todo,
                   iteration, snapshots, checker, snapshot_thread,
                   term_update, det, X_final>>

\* a draw that yields a term (i, j, d_ij)
WorkerTerm(w) ==
    /\ workers[w].pc = "sample" /\ ~fatal
    /\ \E t \in draws.worker :
              /\ t.kind = "term"
              /\ SetWorker(w, [workers[w] EXCEPT
                                  !.pc = "mu", !.last = "term",
                                  !.branch = worker_branch(cfg),
                                  !.path = t.path,
                                  !.i = unpack_number(t.term_i),
                                  !.j = unpack_number(t.term_j),
                                  !.d = t.d])
    /\ UNCHANGED <<extract, cfg, draws, fin, applied_above_delta, updates_after_stop,
                   main, X, term_updates, eta, Delta_max, work_todo,
                   iteration, snapshots, fatal, checker, snapshot_thread,
                   term_update, det, X_final>>

\* mu = eta.load() * w_ij; if (mu > 1) mu = 1
WorkerMu(w) ==
    /\ workers[w].pc = "mu" /\ ~fatal
    /\ SetWorker(w, [workers[w] EXCEPT !.pc = "load_xi",
                                       !.mu = worker_mu[eta, workers[w].d]])
    /\ UNCHANGED <<extract, cfg, draws, fin, applied_above_delta, updates_after_stop,
                   main, X, term_updates, eta, Delta_max, work_todo,
                   iteration, snapshots, fatal, checker, snapshot_thread,
                   term_update, det, X_final>>

\* dx = X[i].load() - ...
WorkerLoadXi(w) ==
    /\ workers[w].pc = "load_xi" /\ ~fatal
    /\ SetWorker(w, [workers[w] EXCEPT !.pc = "load_xj",
                                       !.tmp = X[workers[w].i]])
    /\ UNCHANGED <<extract, cfg, draws, fin, applied_above_delta, updates_after_stop,
                   main, X, term_updates, eta, Delta_max, work_todo,
                   iteration, snapshots, fatal, checker, snapshot_thread,
                   term_update, det, X_final>>

\* ... - X[j].load(); the dx guard, mag, Delta, r and r_x
WorkerLoadXj(w) ==
    /\ workers[w].pc = "load_xj" /\ ~fatal
    /\ LET dx    == worker_dx[workers[w].tmp, X[workers[w].j]]
           Delta == worker_Delta[workers[w].mu, dx, workers[w].d]
       IN  SetWorker(w, [workers[w] EXCEPT !.pc = "dmax_load",
                                           !.tmp = Zero,
                                           !.dx = dx,
                                           !.Delta = Delta,
                                           !.r_x = worker_r_x[Delta, dx]])
    /\ UNCHANGED <<extract, cfg, draws, fin, applied_above_delta, updates_after_stop,
                   main, X, term_updates, eta, Delta_max, work_todo,
                   iteration, snapshots, fatal, checker, snapshot_thread,
                   term_update, det, X_final>>

\* while (Delta_abs > Delta_max.load())
WorkerDeltaMaxLoad(w) ==
    /\ workers[w].pc = "dmax_load" /\ ~fatal
    /\ SetWorker(w, [workers[w] EXCEPT !.pc =
            IF RGt(RAbs(workers[w].Delta), Delta_max)
            THEN "dmax_store" ELSE "upd_i_load"])
    /\ UNCHANGED <<extract, cfg, draws, fin, applied_above_delta, updates_after_stop,
                   main, X, term_updates, eta, Delta_max, work_todo,
                   iteration, snapshots, fatal, checker, snapshot_thread,
                   term_update, det, X_final>>

\* Delta_max.store(Delta_abs)
WorkerDeltaMaxStore(w) ==
    /\ workers[w].pc = "dmax_store" /\ ~fatal
    /\ Delta_max' = RAbs(workers[w].Delta)
    /\ SetWorker(w, [workers[w] EXCEPT !.pc = "dmax_load"])
    /\ UNCHANGED <<extract, cfg, draws, fin, applied_above_delta, updates_after_stop,
                   main, X, term_updates, eta, work_todo, iteration,
                   snapshots, fatal, checker, snapshot_thread, term_update, det,
                   X_final>>

\* X[i].load() - r_x
WorkerUpdILoad(w) ==
    /\ workers[w].pc = "upd_i_load" /\ ~fatal
    /\ SetWorker(w, [workers[w] EXCEPT !.pc = "upd_i_store",
                        !.tmp = RSub[X[workers[w].i], workers[w].r_x]])
    /\ UNCHANGED <<extract, cfg, draws, fin, applied_above_delta, updates_after_stop,
                   main, X, term_updates, eta, Delta_max, work_todo,
                   iteration, snapshots, fatal, checker, snapshot_thread,
                   term_update, det, X_final>>

\* X[i].store(...)
WorkerUpdIStore(w) ==
    /\ workers[w].pc = "upd_i_store" /\ ~fatal
    /\ X' = [X EXCEPT ![workers[w].i] = workers[w].tmp]
    /\ SetWorker(w, [workers[w] EXCEPT !.pc = "upd_j_load", !.tmp = Zero])
    /\ UNCHANGED <<extract, cfg, draws, fin, applied_above_delta, updates_after_stop,
                   main, term_updates, eta, Delta_max, work_todo,
                   iteration, snapshots, fatal, checker, snapshot_thread,
                   term_update, det, X_final>>

\* X[j].load() + r_x, the load taken from X[i]
WorkerUpdJLoadFromI(w) ==
    /\ workers[w].pc = "upd_j_load" /\ ~fatal
    /\ SetWorker(w, [workers[w] EXCEPT !.pc = "upd_j_store",
                        !.tmp = RAdd[X[workers[w].i], workers[w].r_x]])
    /\ UNCHANGED <<extract, cfg, draws, fin, applied_above_delta, updates_after_stop,
                   main, X, term_updates, eta, Delta_max, work_todo,
                   iteration, snapshots, fatal, checker, snapshot_thread,
                   term_update, det, X_final>>

\* X[j].load() + r_x
WorkerUpdJLoad(w) ==
    /\ workers[w].pc = "upd_j_load" /\ ~fatal
    /\ SetWorker(w, [workers[w] EXCEPT !.pc = "upd_j_store",
                        !.tmp = RAdd[X[workers[w].j], workers[w].r_x]])
    /\ UNCHANGED <<extract, cfg, draws, fin, applied_above_delta, updates_after_stop,
                   main, X, term_updates, eta, Delta_max, work_todo,
                   iteration, snapshots, fatal, checker, snapshot_thread,
                   term_update, det, X_final>>

\* X[j].store(...)
WorkerUpdJStore(w) ==
    /\ workers[w].pc = "upd_j_store" /\ ~fatal
    /\ X' = [X EXCEPT ![workers[w].j] = workers[w].tmp]
    /\ SetWorker(w, [workers[w] EXCEPT !.pc = "tu_load", !.tmp = Zero])
    /\ applied_above_delta' =
          (applied_above_delta \/ RGt(RAbs(workers[w].Delta), cfg.delta))
    /\ updates_after_stop' =
          [updates_after_stop EXCEPT
              ![w] = IF work_todo THEN @ ELSE @ + 1]
    /\ UNCHANGED <<extract, cfg, draws, fin, main, term_updates, eta, Delta_max, work_todo,
                   iteration, snapshots, fatal, checker, snapshot_thread,
                   term_update, det, X_final>>

\* term_updates.load() + 1
WorkerTermUpdatesLoad(w) ==
    /\ workers[w].pc = "tu_load" /\ ~fatal
    /\ SetWorker(w, [workers[w] EXCEPT !.pc = "tu_store",
                                       !.tu = term_updates + 1])
    /\ UNCHANGED <<extract, cfg, draws, fin, applied_above_delta, updates_after_stop,
                   main, X, term_updates, eta, Delta_max, work_todo,
                   iteration, snapshots, fatal, checker, snapshot_thread,
                   term_update, det, X_final>>

\* term_updates.store(...); the locals go out of scope
WorkerTermUpdatesStore(w) ==
    /\ workers[w].pc = "tu_store" /\ ~fatal
    /\ term_updates' = workers[w].tu
    /\ SetWorker(w, [IdleWorker EXCEPT !.pc = "while", !.last = "applied",
                                        !.branch = workers[w].branch])
    /\ UNCHANGED <<extract, cfg, draws, fin, applied_above_delta, updates_after_stop,
                   main, X, eta, Delta_max, work_todo, iteration,
                   snapshots, fatal, checker, snapshot_thread, term_update, det,
                   X_final>>

(***************************************************************************)
(* The concurrent driver: controller thread (checker_lambda).              *)
(***************************************************************************)
\* what a read past the end of a vector of doubles may yield
OutOfBoundsDoubles == {NaN, Zero, One}

\* etas[k], k 0-based; etas holds iter_max elements
etas_at(k) ==
    IF k < Len(etas) THEN {etas[k + 1]} ELSE OutOfBoundsDoubles

CheckerFrame ==
    UNCHANGED <<extract, cfg, draws, fin, applied_above_delta, updates_after_stop,
                main, X, snapshots, fatal, snapshot_thread, workers,
                term_update, det, X_final>>

\* while (work_todo.load())
CheckerWhile ==
    /\ checker.pc = "while" /\ ~fatal
    /\ checker' = [checker EXCEPT !.pc = IF work_todo THEN "check" ELSE "exit"]
    /\ UNCHANGED <<term_updates, eta, Delta_max, work_todo, iteration>>
    /\ CheckerFrame

\* if (term_updates.load() > min_term_updates), else sleep and poll again
CheckerPoll ==
    /\ checker.pc = "check" /\ ~fatal
    /\ checker' = [checker EXCEPT !.pc =
            IF term_updates > cfg.min_term_updates THEN "tick" ELSE "while"]
    /\ UNCHANGED <<term_updates, eta, Delta_max, work_todo, iteration>>
    /\ CheckerFrame

\* the tick stopping the run one iteration early
CheckerTickEarly ==
    /\ checker.pc = "tick" /\ ~fatal
    /\ iteration' = iteration + 1
    /\ checker' = [checker EXCEPT !.pc =
            IF iteration + 1 >= cfg.iter_max THEN "stop" ELSE "load_dmax"]
    /\ UNCHANGED <<term_updates, eta, Delta_max, work_todo>>
    /\ CheckerFrame

\* if (++iteration > iter_max)
CheckerTick ==
    /\ checker.pc = "tick" /\ ~fatal
    /\ iteration' = iteration + 1
    /\ checker' = [checker EXCEPT !.pc =
            IF iteration + 1 > cfg.iter_max THEN "stop" ELSE "load_dmax"]
    /\ UNCHANGED <<term_updates, eta, Delta_max, work_todo>>
    /\ CheckerFrame

\* else if (Delta_max.load() <= delta)
CheckerLoadDeltaMax ==
    /\ checker.pc = "load_dmax" /\ ~fatal
    /\ checker' = [checker EXCEPT !.pc =
            IF RLe(Delta_max, cfg.delta) THEN "stop" ELSE "store_eta"]
    /\ applied_above_delta' = FALSE
    /\ UNCHANGED <<term_updates, eta, Delta_max, work_todo, iteration>>
    /\ UNCHANGED <<extract, cfg, draws, fin, updates_after_stop,
                   main, X, snapshots, fatal, snapshot_thread,
                   workers, term_update, det, X_final>>

\* work_todo.store(false)
CheckerStop ==
    /\ checker.pc = "stop" /\ ~fatal
    /\ work_todo' = FALSE
    /\ checker' = [checker EXCEPT !.pc = "reset"]
    /\ UNCHANGED <<term_updates, eta, Delta_max, iteration>>
    /\ CheckerFrame

\* eta.store(etas[iteration])
CheckerStoreEta ==
    /\ checker.pc = "store_eta" /\ ~fatal
    /\ \E e \in etas_at(iteration) : eta' = e
    /\ checker' = [checker EXCEPT !.pc = "store_dmax"]
    /\ UNCHANGED <<term_updates, Delta_max, work_todo, iteration>>
    /\ CheckerFrame

\* Delta_max.store(delta)
CheckerStoreDeltaMax ==
    /\ checker.pc = "store_dmax" /\ ~fatal
    /\ Delta_max' = cfg.delta
    /\ checker' = [checker EXCEPT !.pc = "reset"]
    /\ UNCHANGED <<term_updates, eta, work_todo, iteration>>
    /\ CheckerFrame

\* term_updates.store(0); sleep_for(1ms)
CheckerReset ==
    /\ checker.pc = "reset" /\ ~fatal
    /\ term_updates' = 0
    /\ checker' = [checker EXCEPT !.pc = "while"]
    /\ UNCHANGED <<eta, Delta_max, work_todo, iteration>>
    /\ CheckerFrame

(***************************************************************************)
(* The concurrent driver: snapshot thread (snapshot_lambda).  The thread   *)
(* is started whatever the snapshot flag is.                               *)
(***************************************************************************)
SnapshotFrame ==
    UNCHANGED <<extract, cfg, draws, fin, applied_above_delta, updates_after_stop,
                main, X, term_updates, eta, Delta_max, work_todo,
                iteration, fatal, checker, workers, term_update, det, X_final>>

\* while (work_todo.load())
SnapshotWhile ==
    /\ snapshot_thread.pc = "while" /\ ~fatal
    /\ snapshot_thread' = [snapshot_thread EXCEPT !.pc =
            IF work_todo THEN "test" ELSE "exit"]
    /\ UNCHANGED snapshots
    /\ SnapshotFrame

\* if ((iter < iteration) && iteration != iter_max), else sleep
SnapshotTest ==
    /\ snapshot_thread.pc = "test" /\ ~fatal
    /\ snapshot_thread' = [snapshot_thread EXCEPT !.pc =
            IF snapshot_thread.iter < iteration /\ iteration # cfg.iter_max
            THEN "copy" ELSE "while"]
    /\ UNCHANGED snapshots
    /\ SnapshotFrame

\* X_iter[i++] = x.load()
SnapshotCopy ==
    /\ snapshot_thread.pc = "copy" /\ ~fatal
    /\ LET next == Append(snapshot_thread.X_iter, X[Len(snapshot_thread.X_iter)])
       IN  snapshot_thread' = [snapshot_thread EXCEPT
               !.X_iter = next,
               !.pc = IF Len(next) = get_node_count(G) THEN "push" ELSE "copy"]
    /\ UNCHANGED snapshots
    /\ SnapshotFrame

\* snapshots.push_back(X_iter); iter = iteration; sleep
SnapshotPush ==
    /\ snapshot_thread.pc = "push" /\ ~fatal
    /\ snapshots' = Append(snapshots, snapshot_thread.X_iter)
    /\ snapshot_thread' = [pc |-> "while", iter |-> iteration, X_iter |-> <<>>]
    /\ SnapshotFrame

(***************************************************************************)
(* The deterministic driver (deterministic_path_linear_sgd): one seeded    *)
(* generator, two nested loops, no threads.                                *)
(***************************************************************************)
\* the update with mu left uncapped
det_update_uncapped(Xs, eta_now, dmax, i, j, d) ==
    LET mu    == RMul[eta_now, RDiv[One, Int2R(d)]]
        dx0   == RSub[Xs[i], Xs[j]]
        dx    == IF REq(dx0, Zero) THEN dx_guard ELSE dx0
        mag   == RAbs(dx)
        Delta == RDiv[RMul[mu, RSub[mag, Int2R(d)]], Two]
        r_x   == RMul[RDiv[Delta, mag], dx]
        X1    == [Xs EXCEPT ![i] = RSub[Xs[i], r_x]]
        X2    == [X1 EXCEPT ![j] = RAdd[X1[j], r_x]]
    IN  [X |-> X2,
         Delta |-> Delta,
         Delta_max |-> IF RGt(RAbs(Delta), dmax) THEN RAbs(Delta) ELSE dmax]

\* the update of one term on the state <<X, Delta_max>> at rate eta_now
det_update(Xs, eta_now, dmax, i, j, d) ==
    LET mu0   == RMul[eta_now, RDiv[One, Int2R(d)]]
        mu    == IF RGt(mu0, One) THEN One ELSE mu0
        dx0   == RSub[Xs[i], Xs[j]]
        dx    == IF REq(dx0, Zero) THEN dx_guard ELSE dx0
        mag   == RAbs(dx)
        Delta == RDiv[RMul[mu, RSub[mag, Int2R(d)]], Two]
        r_x   == RMul[RDiv[Delta, mag], dx]
        X1    == [Xs EXCEPT ![i] = RSub[Xs[i], r_x]]
        X2    == [X1 EXCEPT ![j] = RAdd[X1[j], r_x]]
    IN  [X |-> X2,
         Delta |-> Delta,
         Delta_max |-> IF RGt(RAbs(Delta), dmax) THEN RAbs(Delta) ELSE dmax]

DetFrame ==
    UNCHANGED <<extract, cfg, draws, fin, applied_above_delta, updates_after_stop,
                work_todo, checker, snapshot_thread, workers, X_final>>

\* the snapshot taken in the last iteration too
DetOuterSnapshotAlways ==
    /\ main = "det_outer" /\ ~fatal
    /\ IF iteration < cfg.iter_max
       THEN /\ main' = "det_inner"
            /\ snapshots' =
                 IF cfg.snapshot
                 THEN Append(snapshots, [k \in 1..get_node_count(G) |-> X[k - 1]])
                 ELSE snapshots
       ELSE /\ main' = "final"
            /\ UNCHANGED snapshots
    /\ term_update' = 0
    /\ UNCHANGED <<X, term_updates, eta, Delta_max, iteration, fatal, det>>
    /\ DetFrame

\* top of the outer loop: the loop test and the snapshot
DetOuter ==
    /\ main = "det_outer" /\ ~fatal
    /\ IF iteration < cfg.iter_max
       THEN /\ main' = "det_inner"
            /\ snapshots' =
                 IF cfg.snapshot /\ iteration < cfg.iter_max - 1
                 THEN Append(snapshots, [k \in 1..get_node_count(G) |-> X[k - 1]])
                 ELSE snapshots
       ELSE /\ main' = "final"
            /\ UNCHANGED snapshots
    /\ term_update' = 0
    /\ UNCHANGED <<X, term_updates, eta, Delta_max, iteration, fatal, det>>
    /\ DetFrame

\* an inner iteration whose draw hits a skip condition: continue
DetSkip ==
    /\ main = "det_inner" /\ ~fatal
    /\ term_update < cfg.min_term_updates
    /\ \E t \in draws.det :
              /\ t.kind = "skip"
              /\ det' = [IdleDet EXCEPT !.last = t.why,
                                              !.branch = det_branch(cfg)]
    /\ term_update' = term_update + 1
    /\ UNCHANGED <<main, X, term_updates, eta, Delta_max, iteration,
                   snapshots, fatal>>
    /\ DetFrame

\* no overlapping intervals at the drawn position: exit(1)
DetFatal ==
    /\ main = "det_inner" /\ ~fatal
    /\ term_update < cfg.min_term_updates
    /\ \E t \in draws.det : t.kind = "fatal"
    /\ fatal' = TRUE
    /\ det' = [IdleDet EXCEPT !.last = "fatal", !.branch = det_branch(cfg)]
    /\ UNCHANGED <<main, X, term_updates, eta, Delta_max, iteration,
                   snapshots, term_update>>
    /\ DetFrame

\* an inner iteration entered once more than the loop test allows
DetApplyPastBound ==
    /\ main = "det_inner" /\ ~fatal
    /\ term_update <= cfg.min_term_updates
    /\ \E t \in draws.det :
              /\ t.kind = "term"
              /\ LET i == unpack_number(t.term_i)
                     j == unpack_number(t.term_j)
                     u == det_update(X, eta, Delta_max, i, j, t.d)
                 IN  /\ X' = u.X
                     /\ Delta_max' = u.Delta_max
                     /\ det' = [last |-> "applied", branch |-> det_branch(cfg),
                                path |-> t.path, i |-> i, j |-> j, d |-> t.d,
                                Delta |-> u.Delta]
                     /\ applied_above_delta' =
                           (applied_above_delta
                               \/ RGt(RAbs(u.Delta), cfg.delta))
    /\ term_updates' = term_updates + 1
    /\ term_update' = term_update + 1
    /\ UNCHANGED <<main, eta, iteration, snapshots, fatal>>
    /\ UNCHANGED <<extract, cfg, draws, fin, updates_after_stop, work_todo, checker, snapshot_thread,
                   workers, X_final>>

\* an inner iteration that applies its term
DetApply ==
    /\ main = "det_inner" /\ ~fatal
    /\ term_update < cfg.min_term_updates
    /\ \E t \in draws.det :
              /\ t.kind = "term"
              /\ LET i == unpack_number(t.term_i)
                     j == unpack_number(t.term_j)
                     u == det_update(X, eta, Delta_max, i, j, t.d)
                 IN  /\ X' = u.X
                     /\ Delta_max' = u.Delta_max
                     /\ det' = [last |-> "applied", branch |-> det_branch(cfg),
                                path |-> t.path, i |-> i, j |-> j, d |-> t.d,
                                Delta |-> u.Delta]
                     /\ applied_above_delta' =
                           (applied_above_delta
                               \/ RGt(RAbs(u.Delta), cfg.delta))
    /\ term_updates' = term_updates + 1
    /\ term_update' = term_update + 1
    /\ UNCHANGED <<main, eta, iteration, snapshots, fatal>>
    /\ UNCHANGED <<extract, cfg, draws, fin, updates_after_stop, work_todo, checker, snapshot_thread,
                   workers, X_final>>

\* the early stop taken on Delta_max < delta only
DetEndIterationStrict ==
    /\ main = "det_inner" /\ ~fatal
    /\ term_update >= cfg.min_term_updates
    /\ IF RLt(Delta_max, cfg.delta)
       THEN /\ main' = "final"
            /\ UNCHANGED <<eta, Delta_max, term_updates, iteration>>
       ELSE /\ main' = "det_outer"
            /\ IF iteration + 1 < cfg.iter_max
               THEN /\ eta' = etas[iteration + 2]
                    /\ Delta_max' = cfg.delta
               ELSE UNCHANGED <<eta, Delta_max>>
            /\ term_updates' = 0
            /\ iteration' = iteration + 1
    /\ applied_above_delta' = FALSE
    /\ UNCHANGED <<X, snapshots, fatal, term_update, det>>
    /\ UNCHANGED <<extract, cfg, draws, fin, updates_after_stop, work_todo, checker, snapshot_thread,
                   workers, X_final>>

\* after the inner loop: early stop, or the next rate and the resets
DetEndIteration ==
    /\ main = "det_inner" /\ ~fatal
    /\ term_update >= cfg.min_term_updates
    /\ IF RLe(Delta_max, cfg.delta)
       THEN /\ main' = "final"
            /\ UNCHANGED <<eta, Delta_max, term_updates, iteration>>
       ELSE /\ main' = "det_outer"
            /\ IF iteration + 1 < cfg.iter_max
               THEN /\ eta' = etas[iteration + 2]
                    /\ Delta_max' = cfg.delta
               ELSE UNCHANGED <<eta, Delta_max>>
            /\ term_updates' = 0
            /\ iteration' = iteration + 1
    /\ applied_above_delta' = FALSE
    /\ UNCHANGED <<X, snapshots, fatal, term_update, det>>
    /\ UNCHANGED <<extract, cfg, draws, fin, updates_after_stop, work_todo, checker, snapshot_thread,
                   workers, X_final>>

(***************************************************************************)
(* The order finalizer (path_linear_sgd_order), from the point where the   *)
(* driver has returned the layout (X_final) and the snapshot layouts       *)
(* (snapshots).                                                            *)
(***************************************************************************)
RECURSIVE Closure(_, _)
\* the nodes connected to a node of S
Closure(Gr, S) ==
    LET T == S \cup {m \in 1..get_node_count(Gr) :
                        \E n \in S : {n, m} \in Gr.edges}
    IN  IF T = S THEN S ELSE Closure(Gr, T)

RECURSIVE ComponentSeq(_)
\* node sets as a sequence, by smallest node id
ComponentSeq(S) ==
    IF S = {} THEN <<>>
    ELSE LET c == CHOOSE c \in S : \A e \in S :
                      \E n \in c : \A m \in e : n <= m
         IN  <<c>> \o ComponentSeq(S \ {c})

\* algorithms::weakly_connected_components: the node id sets
weakly_connected_components(Gr) ==
    ComponentSeq({Closure(Gr, {n}) : n \in 1..get_node_count(Gr)})

RECURSIVE id_sum(_)
id_sum(S) ==
    IF S = {} THEN 0
    ELSE LET n == CHOOSE n \in S : TRUE IN n + id_sum(S \ {n})

\* avg_id = id_sum / (double) weak_component.size()
avg_id(c) == Rat[id_sum(c), Cardinality(c)]

\* operator< of std::pair<double, uint64_t>
weak_component_order_less(p, q) ==
    RLt(p[1], q[1]) \/ (~RLt(q[1], p[1]) /\ p[2] < q[2])

\* weak_component_id[i]: the rank of component i once the (avg_id, i) pairs
\* are sorted
weak_component_id(wc) ==
    [i \in 1..Len(wc) |->
        Cardinality({k \in 1..Len(wc) :
            weak_component_order_less(<<avg_id(wc[k]), k>>, <<avg_id(wc[i]), i>>)})]

\* weak_components_map[node_id - 1] = weak_component_id[i], as the sequence
\* of the values at node ids 1..N
weak_components_map(Gr) ==
    LET wc == weakly_connected_components(Gr)
    IN  [n \in 1..get_node_count(Gr) |->
            weak_component_id(wc)[CHOOSE i \in 1..Len(wc) : n \in wc[i]]]

\* std::vector::operator[] without a bounds check: inside the size the
\* element; past it the behaviour is undefined: the storage that clear()
\* kept is read, or a build with container assertions aborts
vector_at(vec, k) ==
    IF k < vec.size
    THEN {[ok |-> TRUE, v |-> vec.data[k + 1]]}
    ELSE {[ok |-> TRUE, v |-> vec.data[k + 1]], [ok |-> FALSE, v |-> 0]}

\* the handle_layout_t records pushed by for_each_handle, given what the
\* reads of weak_components_map yield
handle_layout_of(Gr, lay, map_data) ==
    [k \in 1..get_node_count(Gr) |->
        LET handle == for_each_handle(Gr)[k]
        IN  [weak_component |-> map_data[unpack_number(handle) + 1],
             pos            |-> lay[k],
             handle         |-> handle]]

\* the comparator handed to std::sort; && binds tighter than ||
handle_layout_less(a, b) ==
    \/ a.weak_component < b.weak_component
    \/ (a.weak_component = b.weak_component /\ RLt(a.pos, b.pos))
    \/ (REq(a.pos, b.pos) /\ a.handle < b.handle)

Range(s) == {s[k] : k \in DOMAIN s}

\* the Compare requirement of std::sort on the values of the range
IsStrictWeakOrdering(S) ==
    LET equiv(a, b) == ~handle_layout_less(a, b) /\ ~handle_layout_less(b, a)
    IN  /\ \A a \in S : ~handle_layout_less(a, a)
        /\ \A a, b \in S : handle_layout_less(a, b) => ~handle_layout_less(b, a)
        /\ \A a, b, c \in S :
              handle_layout_less(a, b) /\ handle_layout_less(b, c)
                  => handle_layout_less(a, c)
        /\ \A a, b, c \in S : equiv(a, b) /\ equiv(b, c) => equiv(a, c)

\* std::sort(first, last, comp): a sorted permutation when comp is a strict
\* weak ordering of the values; otherwise the behaviour is undefined: any
\* arrangement of values of the range (elements can be duplicated and
\* lost), or a crash
std_sort(s) ==
    IF IsStrictWeakOrdering(Range(s))
    THEN {[ok |-> TRUE, v |-> q] : q \in
            {q \in [1..Len(s) -> Range(s)] :
                /\ Range(q) = Range(s)
                /\ \A i, k \in 1..Len(s) :
                      i < k => ~handle_layout_less(q[k], q[i])}}
    ELSE {[ok |-> TRUE, v |-> q] : q \in [1..Len(s) -> Range(s)]}
         \cup {[ok |-> FALSE, v |-> <<>>]}

\* order.push_back(layout_handle.handle) for every element
order_of(hl) == [k \in 1..Len(hl) |-> hl[k].handle]

OrderFrame ==
    UNCHANGED <<extract, cfg, draws, applied_above_delta, updates_after_stop,
                main, X, term_updates, eta, Delta_max, work_todo,
                iteration, snapshots, fatal, checker, snapshot_thread, workers,
                term_update, det, X_final>>

\* the components, their ranks by mean node id, the node-to-rank map
OrderComponents ==
    /\ main = "returned" /\ fin.pc = "idle" /\ ~fatal
    /\ fin' = [fin EXCEPT !.pc = "clear",
                          !.weak_components_map =
                              [size |-> get_node_count(G),
                               data |-> weak_components_map(G)]]
    /\ OrderFrame

\* weak_components_map.clear()
OrderClear ==
    /\ fin.pc = "clear"
    /\ fin' = [fin EXCEPT !.pc = "snapshots", !.j = 0,
                          !.weak_components_map.size = 0]
    /\ OrderFrame

\* if (snapshot): one iteration of the loop over snapshots_layouts
OrderSnapshot ==
    /\ fin.pc = "snapshots"
    /\ IF cfg.snapshot /\ fin.j < Len(snapshots)
       THEN \E rd \in vector_at(fin.weak_components_map, 0) :
              IF ~rd.ok
              THEN fin' = [fin EXCEPT !.pc = "aborted"]
              ELSE \E r \in std_sort(handle_layout_of(G, snapshots[fin.j + 1],
                                         fin.weak_components_map.data)) :
                     IF ~r.ok
                     THEN fin' = [fin EXCEPT !.pc = "aborted"]
                     ELSE fin' = [fin EXCEPT
                                     !.j = fin.j + 1,
                                     !.snapshots = Append(fin.snapshots, order_of(r.v))]
       ELSE fin' = [fin EXCEPT !.pc = "layout"]
    /\ OrderFrame

\* handle_layout.push_back({weak_components_map[...], layout[i++], handle})
OrderLayout ==
    /\ fin.pc = "layout"
    /\ \E rd \in vector_at(fin.weak_components_map, 0) :
          IF ~rd.ok
          THEN fin' = [fin EXCEPT !.pc = "aborted"]
          ELSE fin' = [fin EXCEPT
                          !.pc = "sort",
                          !.handle_layout =
                              handle_layout_of(G, X_final, fin.weak_components_map.data)]
    /\ OrderFrame

\* std::sort(handle_layout.begin(), handle_layout.end(), comparator)
OrderSort ==
    /\ fin.pc = "sort"
    /\ \E r \in std_sort(fin.handle_layout) :
          IF ~r.ok
          THEN fin' = [fin EXCEPT !.pc = "aborted"]
          ELSE fin' = [fin EXCEPT !.pc = "emit", !.handle_layout = r.v]
    /\ OrderFrame

\* order.push_back(...) for every element; return order
OrderReturn ==
    /\ fin.pc = "emit"
    /\ fin' = [fin EXCEPT !.pc = "returned", !.order = order_of(fin.handle_layout)]
    /\ OrderFrame

(***************************************************************************)
(* The drivers.                                                            *)
(***************************************************************************)
Worker(w) ==
    \/ WorkerWhile(w)
    \/ WorkerSkip(w)
    \/ WorkerFatal(w)
    \/ WorkerTerm(w)
    \/ WorkerMu(w)
    \/ WorkerLoadXi(w)
    \/ WorkerLoadXj(w)
    \/ WorkerDeltaMaxLoad(w)
    \/ WorkerDeltaMaxStore(w)
    \/ WorkerUpdILoad(w)
    \/ WorkerUpdIStore(w)
    \/ WorkerUpdJLoad(w)
    \/ WorkerUpdJStore(w)
    \/ WorkerTermUpdatesLoad(w)
    \/ WorkerTermUpdatesStore(w)

Checker ==
    \/ CheckerWhile
    \/ CheckerPoll
    \/ CheckerTick
    \/ CheckerLoadDeltaMax
    \/ CheckerStop
    \/ CheckerStoreEta
    \/ CheckerStoreDeltaMax
    \/ CheckerReset

Snapshot ==
    \/ SnapshotWhile
    \/ SnapshotTest
    \/ SnapshotCopy
    \/ SnapshotPush

Main ==
    \/ Launch
    \/ JoinWorkers
    \/ JoinSnapshot
    \/ JoinChecker
    \/ ReturnLayout

Deterministic ==
    \/ DetOuter
    \/ DetSkip
    \/ DetFatal
    \/ DetApply
    \/ DetEndIteration

Next ==
    \/ Main
    \/ Checker
    \/ Snapshot
    \/ \E w \in DOMAIN workers : Worker(w)
    \/ Deterministic

Spec == Init /\ [][Next]_vars

(***************************************************************************)
(* Fair scheduling: every thread that can take a step eventually takes     *)
(* one, and a worker whose generator can draw a term again and again       *)
(* eventually draws one (the distributions are uniform over their range).  *)
(***************************************************************************)
WorkerStep(w) == w \in DOMAIN workers /\ Worker(w)

WorkerDrawsTerm(w) == w \in DOMAIN workers /\ WorkerTerm(w)

Fairness ==
    /\ WF_vars(Main)
    /\ WF_vars(Checker)
    /\ WF_vars(Snapshot)
    /\ WF_vars(Deterministic)
    /\ \A w \in ThreadCounts \ {0} : WF_vars(WorkerStep(w)) /\ SF_vars(WorkerDrawsTerm(w))

FairSpec == Init /\ [][Next]_vars /\ Fairness

(***************************************************************************)
(* The order finalizer on its own: it starts where a driver has returned   *)
(* a layout, over graphs of several components.                            *)
(***************************************************************************)
\* the layouts a driver hands over: coordinates 0..MaxCoord
Layouts(Gr) == [1..get_node_count(Gr) -> {Int2R(v) : v \in 0..MaxCoord}]

OrderGraphs == {3, 4}

\* the state in which the deterministic driver has returned lay (and,
\* with the snapshot flag, one snapshot layout)
OrderInitOf(g, snap, lay) ==
    /\ cfg = [g |-> g, use |-> <<1>>,
              sample_from_paths |-> TRUE, sample_from_nodes |-> FALSE,
              iter_max |-> 1, iter_with_max_learning_rate |-> 0,
              min_term_updates |-> 0, delta |-> Zero, eta_max |-> Two,
              decay |-> <<1, 2>>, space |-> MaxSpace, nthreads |-> 1,
              snapshot |-> snap, path_sgd_deterministic |-> TRUE]
    /\ main = "returned"
    /\ X = [n \in 0..(get_node_count(Graphs[g]) - 1) |->
               IF snap THEN InitialX(Graphs[g])[n] ELSE lay[n + 1]]
    /\ X_final = [k \in 1..get_node_count(Graphs[g]) |->
                     IF snap THEN InitialX(Graphs[g])[k - 1] ELSE lay[k]]
    /\ snapshots = IF snap THEN <<lay>> ELSE <<>>
    /\ term_updates = 0
    /\ eta = Two
    /\ Delta_max = Zero
    /\ work_todo = TRUE
    /\ iteration = 0
    /\ fatal = FALSE
    /\ checker = [pc |-> "idle"]
    /\ snapshot_thread = [pc |-> "idle", iter |-> 0, X_iter |-> <<>>]
    /\ workers = <<>>
    /\ term_update = 0
    /\ det = IdleDet
    /\ draws = [worker |-> {}, det |-> {}]
    /\ fin = IdleFin
    /\ applied_above_delta = FALSE
    /\ updates_after_stop = [w \in DOMAIN workers |-> 0]
    /\ extract = IdleExtract

OrderInit ==
    \E g \in OrderGraphs, snap \in BOOLEAN :
        \E lay \in Layouts(Graphs[g]) : OrderInitOf(g, snap, lay)

OrderNext ==
    \/ OrderComponents
    \/ OrderClear
    \/ OrderSnapshot
    \/ OrderLayout
    \/ OrderSort
    \/ OrderReturn

OrderSpec == OrderInit /\ [][OrderNext]_vars

(***************************************************************************)
(* The update kernel on its own: one term of either driver applied to      *)
(* coordinates and a learning rate drawn from bounded sets.                *)
(***************************************************************************)
\* largest coordinate the kernel is applied to
MaxKernelCoord == 3

\* the rates of the schedule (eta_max = 2 decaying by 1/2), and its NaN
KernelRates == {NaN, <<1, 2>>, One, Two}

KernelGraphs == {1, 3}

\* layouts of pairwise distinct coordinates (the 1e-9 that stands in for a
\* zero difference scales every later quotient beyond the model's integers)
KernelLayouts(Gr) ==
    {lay \in [0..(get_node_count(Gr) - 1) ->
                 {Int2R(v) : v \in 0..MaxKernelCoord}] :
        \A m, n \in DOMAIN lay : m # n => lay[m] # lay[n]}

\* a driver about to draw a term in step-uniform mode, at layout lay and
\* rate e
KernelInitOf(g, deterministic, lay, e) ==
    /\ cfg = [g |-> g, use |-> <<1>>,
              sample_from_paths |-> FALSE, sample_from_nodes |-> FALSE,
              iter_max |-> MaxIter, iter_with_max_learning_rate |-> 0,
              min_term_updates |-> 1, delta |-> Zero, eta_max |-> Two,
              decay |-> <<1, 2>>, space |-> MaxSpace, nthreads |-> 1,
              snapshot |-> FALSE, path_sgd_deterministic |-> deterministic]
    /\ main = IF deterministic THEN "det_inner" ELSE "join_workers"
    /\ X = lay
    /\ eta = e
    /\ term_updates = 0
    /\ Delta_max = Zero
    /\ work_todo = TRUE
    /\ iteration = 0
    /\ snapshots = <<>>
    /\ fatal = FALSE
    /\ checker = [pc |-> IF deterministic THEN "idle" ELSE "while"]
    /\ snapshot_thread = [pc |-> IF deterministic THEN "idle" ELSE "while",
                          iter |-> 0, X_iter |-> <<>>]
    /\ workers = IF deterministic THEN <<>>
                 ELSE <<[IdleWorker EXCEPT !.pc = "sample"]>>
    /\ term_update = 0
    /\ det = IdleDet
    /\ X_final = <<>>
    /\ draws = LET k == [g |-> g, use |-> <<1>>, sample_from_paths |-> FALSE,
                         sample_from_nodes |-> FALSE, space |-> MaxSpace]
               IN  [worker |-> WorkerOutcomes(Graphs[g], k),
                    det    |-> DetOutcomes(Graphs[g], k)]
    /\ fin = IdleFin
    /\ applied_above_delta = FALSE
    /\ updates_after_stop = [w \in DOMAIN workers |-> 0]
    /\ extract = IdleExtract

KernelInit ==
    \E g \in KernelGraphs, deterministic \in BOOLEAN, e \in KernelRates :
        \E lay \in KernelLayouts(Graphs[g]) :
            KernelInitOf(g, deterministic, lay, e)

KernelNext ==
    \/ DetApply
    \/ \E w \in DOMAIN workers : WorkerTerm(w)
    \/ \E w \in DOMAIN workers : WorkerMu(w)
    \/ \E w \in DOMAIN workers : WorkerLoadXi(w)
    \/ \E w \in DOMAIN workers : WorkerLoadXj(w)

KernelSpec == KernelInit /\ [][KernelNext]_vars

(***************************************************************************)
(* The deterministic driver on its own, over longer schedules.             *)
(***************************************************************************)
\* largest iter_max of a deterministic run
MaxDetIter == 3

DetConfigs ==
    {d \in {[c EXCEPT !.iter_max = n] :
                c \in {c \in Configs : c.path_sgd_deterministic},
                n \in 1..MaxDetIter} :
        d.iter_with_max_learning_rate < d.iter_max}

DetInit == \E c \in DetConfigs : InitOf(c)

DetNext ==
    \/ Deterministic
    \/ ReturnLayout

DetSpec == DetInit /\ [][DetNext]_vars

(***************************************************************************)
(* The concurrent driver's workers and controller on their own, over runs  *)
(* of one and of two workers whose schedule holds two different rates.     *)
(* The snapshot thread and the joins write nothing these threads read.     *)
(***************************************************************************)
\* the workers of these runs start no new term once the controller's
\* iteration has passed this
MaxRaceIteration == 0

RaceConfigs ==
    [g                 : {1},
     use               : {<<1>>},
     sample_from_paths : {TRUE},
     sample_from_nodes : {FALSE},
     iter_max          : {2},
     iter_with_max_learning_rate : {1},
     min_term_updates  : {0},
     delta             : {Zero},
     eta_max           : {Two},
     decay             : {<<1, 2>>},
     space             : {1},
     nthreads          : ThreadCounts \ {0},
     snapshot          : {FALSE},
     path_sgd_deterministic : {FALSE}]

RaceInit ==
    \E c \in RaceConfigs :
        /\ cfg = c
        /\ main = "launch"
        /\ X = InitialX(Graphs[c.g])
        /\ term_updates = 0
        /\ eta = path_linear_sgd_schedule(c.eta_max, c.decay, c.iter_max,
                                          c.iter_with_max_learning_rate)[1]
        /\ Delta_max = Zero
        /\ work_todo = TRUE
        /\ iteration = 0
        /\ snapshots = <<>>
        /\ fatal = FALSE
        /\ checker = [pc |-> "idle"]
        /\ snapshot_thread = [pc |-> "idle", iter |-> 0, X_iter |-> <<>>]
        /\ workers = [w \in 1..c.nthreads |-> IdleWorker]
        /\ term_update = 0
        /\ det = IdleDet
        /\ X_final = <<>>
        /\ draws = [worker |-> WorkerOutcomes(Graphs[c.g], SamplerKey(c)),
                    det    |-> DetOutcomes(Graphs[c.g], SamplerKey(c))]
        /\ fin = IdleFin
        /\ applied_above_delta = FALSE
        /\ updates_after_stop = [w \in DOMAIN workers |-> 0]
        /\ extract = IdleExtract

\* while (work_todo.load()), within the bound on new terms
RaceWorkerWhile(w) ==
    /\ work_todo => iteration <= MaxRaceIteration
    /\ WorkerWhile(w)

\* the steps of worker w in path-uniform mode, where no draw is fatal
RaceWorker(w) ==
    \/ RaceWorkerWhile(w)
    \/ WorkerSkip(w)
    \/ WorkerTerm(w)
    \/ WorkerMu(w)
    \/ WorkerLoadXi(w)
    \/ WorkerLoadXj(w)
    \/ WorkerDeltaMaxLoad(w)
    \/ WorkerDeltaMaxStore(w)
    \/ WorkerUpdILoad(w)
    \/ WorkerUpdIStore(w)
    \/ WorkerUpdJLoad(w)
    \/ WorkerUpdJStore(w)
    \/ WorkerTermUpdatesLoad(w)
    \/ WorkerTermUpdatesStore(w)

RaceNext ==
    \/ Launch
    \/ Checker
    \/ \E w \in DOMAIN workers : RaceWorker(w)

RaceSpec == RaceInit /\ [][RaceNext]_vars

(***************************************************************************)
(* Both drivers' samplers over a path of three steps and Zipf values that  *)
(* exceed the room left on either side of the first position: a lone       *)
(* worker with the controller, and the deterministic driver, in the three  *)
(* sampling modes.                                                         *)
(***************************************************************************)
\* largest value of the Zipfian distribution in these runs
MaxZipfSpace == 3

ZipfConfigs ==
    {c \in [g                 : {1, 3},
            use               : {<<1>>},
            sample_from_paths : BOOLEAN,
            sample_from_nodes : BOOLEAN,
            iter_max          : {2},
            iter_with_max_learning_rate : {0},
            min_term_updates  : {1},
            delta             : {Zero},
            eta_max           : {Two},
            decay             : {<<1, 2>>},
            space             : {MaxZipfSpace},
            nthreads          : {1},
            snapshot          : {FALSE},
            path_sgd_deterministic : BOOLEAN] :
        ~(c.sample_from_paths /\ c.sample_from_nodes)}

ZipfInit ==
    \E c \in ZipfConfigs :
        /\ cfg = c
        /\ main = IF c.path_sgd_deterministic THEN "det_outer" ELSE "launch"
        /\ X = InitialX(Graphs[c.g])
        /\ term_updates = 0
        /\ eta = path_linear_sgd_schedule(c.eta_max, c.decay, c.iter_max,
                                          c.iter_with_max_learning_rate)[1]
        /\ Delta_max = Zero
        /\ work_todo = TRUE
        /\ iteration = 0
        /\ snapshots = <<>>
        /\ fatal = FALSE
        /\ checker = [pc |-> "idle"]
        /\ snapshot_thread = [pc |-> "idle", iter |-> 0, X_iter |-> <<>>]
        /\ workers = [w \in 1..(IF c.path_sgd_deterministic THEN 0 ELSE c.nthreads)
                        |-> IdleWorker]
        /\ term_update = 0
        /\ det = IdleDet
        /\ X_final = <<>>
        /\ draws = [worker |-> WorkerOutcomes(Graphs[c.g], SamplerKey(c)),
                    det    |-> DetOutcomes(Graphs[c.g], SamplerKey(c))]
        /\ fin = IdleFin
        /\ applied_above_delta = FALSE
        /\ updates_after_stop = [w \in DOMAIN workers |-> 0]
        /\ extract = IdleExtract

ZipfNext ==
    \/ Launch
    \/ Checker
    \/ \E w \in DOMAIN workers : RaceWorker(w)
    \/ DetOuter
    \/ DetSkip
    \/ DetApply
    \/ DetEndIteration

ZipfSpec == ZipfInit /\ [][ZipfNext]_vars

(***************************************************************************)
(* Properties of the concurrent driver's termination.                      *)
(***************************************************************************)
\* the run flag is down and every thread has left its loop
AllThreadsExited ==
    /\ ~work_todo
    /\ checker.pc = "exit"
    /\ snapshot_thread.pc = "exit"
    /\ \A w \in DOMAIN workers : workers[w].pc = "exit"

\* C1: under fair scheduling a run of the concurrent driver with
\* nthreads >= 1 always terminates: eventually work_todo is false and the
\* controller, the snapshot thread and every worker have exited (or the
\* process has ended through exit(1)), also when every draw skips.
C1_AlwaysTerminates ==
    (~cfg.path_sgd_deterministic /\ cfg.nthreads >= 1)
        => <>(fatal \/ AllThreadsExited)

(***************************************************************************)
(* Properties of the term sampler.                                         *)
(***************************************************************************)
\* C6: with sample_from_paths and sample_from_nodes both set, both drivers
\* sample node-uniformly: no draw goes through the path-uniform branch.
C6_BothFlagsSampleNodeUniform ==
    (cfg.sample_from_paths /\ cfg.sample_from_nodes) =>
        /\ \A w \in DOMAIN workers : workers[w].branch \in {"none", "nodes"}
        /\ det.branch \in {"none", "nodes"}

\* C7: in all three sampling modes every term that is applied comes from a
\* path of path_sgd_use_paths.
C7_TermsFromSelectedPaths ==
    /\ \A w \in DOMAIN workers :
          workers[w].path # 0 => workers[w].path \in Range(cfg.use)
    /\ det.last = "applied" => det.path \in Range(cfg.use)

\* C8: a run with an invalid hyperparameter (here nthreads = 0) is rejected
\* with an error before it starts: no thread is launched.
C8_InvalidConfigurationRejected ==
    (~cfg.path_sgd_deterministic /\ cfg.nthreads = 0) =>
        /\ main = "launch"
        /\ checker.pc = "idle"
        /\ snapshot_thread.pc = "idle"

\* C9: with T >= 1 every position in [0, T) is covered by exactly one
\* interval of the tree, the offset pos - start of a path-uniform draw lies
\* in [0, L(path)), and the fatal exit is unreachable whatever the flags.
C9_FatalExitUnreachable ==
    LET tree == path_nucleotide_tree(G, cfg.use)
        T    == total_path_len_in_nucleotides(G, cfg.use)
    IN  T >= 1 =>
          /\ \A pos \in 0..(T - 1) : Cardinality(overlap(tree, pos, pos + 1)) = 1
          /\ \A t \in draws.worker \cup draws.det :
                (t.kind = "term" /\ cfg.sample_from_paths)
                    => t.pos_a \in 0..(get_path_length(G, t.path) - 1)
          /\ ~fatal

\* the conditions on which a draw is skipped
SkipReasons == {"np_bv", "no_paths", "pos_a_zero", "no_room", "d_zero"}

\* a step in which a worker, or the deterministic loop, skips its draw
SkipStep ==
    \/ \E w \in DOMAIN workers :
          /\ w \in DOMAIN workers'
          /\ workers[w].pc = "sample"
          /\ workers'[w].pc = "while"
    \/ /\ main = "det_inner"
       /\ det'.last \in SkipReasons
       /\ term_update' = term_update + 1

\* C10: a draw that meets a skip condition leaves X, Delta_max, eta and
\* term_updates as they were.
C10_SkipLeavesStateUnchanged ==
    [][SkipStep => UNCHANGED <<X, Delta_max, eta, term_updates>>]_vars

\* a worker has skipped a draw after a term was applied and counted
C10_SkippedAfterUpdate ==
    \E w \in DOMAIN workers :
        /\ workers[w].pc = "while"
        /\ workers[w].last \in SkipReasons
        /\ term_updates > 0
        /\ X # InitialX(G)

(***************************************************************************)
(* Properties of the returned order.                                       *)
(***************************************************************************)
\* the component of node id, and its mean node id
ComponentOf(id) == Closure(G, {id})

MeanLess(c, e) == id_sum(c) * Cardinality(e) < id_sum(e) * Cardinality(c)

\* the layout coordinate the finalizer sorted handle h by
CoordOf(h) == X_final[CHOOSE k \in 1..get_node_count(G) : for_each_handle(G)[k] = h]

IsOrderOfAllHandles(o) ==
    /\ Len(o) = get_node_count(G)
    /\ \A h \in Range(for_each_handle(G)) :
          Cardinality({k \in 1..Len(o) : o[k] = h}) = 1

\* C3: in the returned order every handle of a component with the smaller
\* mean node id precedes every handle of a component with the larger one,
\* whatever the layout, equal coordinates across components included.
C3_ComponentsByMeanNodeId ==
    fin.pc = "returned" =>
        \A p, q \in 1..Len(fin.order) :
            MeanLess(ComponentOf(get_id(fin.order[p])),
                     ComponentOf(get_id(fin.order[q]))) => p < q

\* C4: the returned order has length N and holds every handle exactly once,
\* and so does every snapshot order.
C4_OrderIsPermutation ==
    fin.pc = "returned" =>
        /\ IsOrderOfAllHandles(fin.order)
        /\ \A k \in 1..Len(fin.snapshots) : IsOrderOfAllHandles(fin.snapshots[k])

\* C5: within a component the returned order is by non-decreasing
\* coordinate, equal coordinates by ascending handle integer.
C5_SortedWithinComponent ==
    fin.pc = "returned" =>
        \A p, q \in 1..Len(fin.order) :
            (p < q /\ ComponentOf(get_id(fin.order[p]))
                        = ComponentOf(get_id(fin.order[q]))) =>
                \/ RLt(CoordOf(fin.order[p]), CoordOf(fin.order[q]))
                \/ /\ REq(CoordOf(fin.order[p]), CoordOf(fin.order[q]))
                   /\ fin.order[p] < fin.order[q]

(***************************************************************************)
(* Properties of the update.                                               *)
(***************************************************************************)
RECURSIVE SumX(_, _)
\* Xs[0] + ... + Xs[n - 1], in double arithmetic
SumX(Xs, n) == IF n = 0 THEN Zero ELSE RAdd[SumX(Xs, n - 1), Xs[n - 1]]

\* between two updates of the only thread that writes X
LoneWriterAtRest ==
    \/ cfg.path_sgd_deterministic
    \/ /\ cfg.nthreads = 1
       /\ workers[1].pc \notin {"upd_j_load", "upd_j_store"}

\* C11: an update applied without interleaving at i # j keeps X[i] + X[j]
\* and every other coordinate, so between the updates of a deterministic
\* run or of a lone worker the coordinates sum to their initial sum.
C11_UpdateKeepsPairSum ==
    /\ [](LoneWriterAtRest =>
             REq(SumX(X, get_node_count(G)),
                 SumX(InitialX(G), get_node_count(G))))
    /\ [][DetApply =>
             (det'.i # det'.j =>
                 /\ REq(RAdd[X'[det'.i], X'[det'.j]], RAdd[X[det'.i], X[det'.j]])
                 /\ \A k \in DOMAIN X \ {det'.i, det'.j} : X'[k] = X[k])]_vars

(***************************************************************************)
(* Properties of the seeded layout.                                        *)
(***************************************************************************)
\* neither driver has applied an update, or begun one
BeforeAnyUpdate ==
    /\ det.last = "none" /\ iteration = 0
    /\ \A w \in DOMAIN workers : workers[w].last = "none"

RECURSIVE LengthOfHandles(_)
\* the total length of a sequence of handles
LengthOfHandles(hs) ==
    IF hs = <<>> THEN 0
    ELSE get_length(G, Head(hs)) + LengthOfHandles(Tail(hs))

\* C12: after initialization and before any update X[unpack_number(h)] is
\* the total length of the handles that precede h in for_each_handle order,
\* and X increases strictly along that order.
C12_InitialLayoutIsPrefixSums ==
    BeforeAnyUpdate =>
        \A k \in 1..get_node_count(G) :
            LET hs == for_each_handle(G)
            IN  /\ X[unpack_number(hs[k])] =
                      Int2R(LengthOfHandles(SubSeq(hs, 1, k - 1)))
                /\ k > 1 => RLt(X[unpack_number(hs[k - 1])],
                                X[unpack_number(hs[k])])

\* a driver is inside its loop on a graph of several nodes, no update yet
C12_RunningBeforeFirstUpdate ==
    /\ BeforeAnyUpdate
    /\ get_node_count(G) > 1
    /\ \/ main = "det_inner"
       \/ \E w \in DOMAIN workers : workers[w].pc = "sample"

\* the seeded layout as the vector a driver returns
InitialLayout == [k \in 1..get_node_count(G) |-> InitialX(G)[k - 1]]

\* C13: the deterministic driver with min_term_updates = 0 applies no
\* update and returns the seeded layout, whatever iter_max and delta are.
C13_NoTermsReturnsInitialLayout ==
    (cfg.path_sgd_deterministic /\ cfg.min_term_updates = 0) =>
        /\ X = InitialX(G)
        /\ term_updates = 0
        /\ det.last = "none"
        /\ main = "returned" => X_final = InitialLayout

\* such a run has returned the layout of a graph of several nodes
C13_ReturnedWithoutTerms ==
    /\ cfg.path_sgd_deterministic /\ cfg.min_term_updates = 0
    /\ cfg.iter_max > 1 /\ cfg.delta = Zero
    /\ get_node_count(G) > 1
    /\ main = "returned"

(***************************************************************************)
(* Properties of the controller and of the threads' lifetime.              *)
(***************************************************************************)
\* C14: the concurrent driver with iter_max = 1, min_term_updates = 0 and a
\* delta no |Delta| exceeds stops with no worker update applied and returns
\* the seeded layout.
C14_FirstPollStopsWithInitialLayout ==
    (/\ ~cfg.path_sgd_deterministic /\ cfg.nthreads >= 1
     /\ cfg.iter_max = 1 /\ cfg.min_term_updates = 0 /\ cfg.delta = One) =>
        /\ X = InitialX(G)
        /\ main = "returned" => X_final = InitialLayout

(***************************************************************************)
(* Properties of the size of one move.                                     *)
(***************************************************************************)
\* half of what the term's layout distance |xi - xj| misses d by
HalfError(xi, xj, d) == RDiv[RAbs(RSub[RAbs(RSub[xi, xj]), Int2R(d)]), Two]

TermOffset(p, r) ==
    LET h == G.paths[p][r + 1]
    IN  LengthOfHandles(SubSeq(G.paths[p], 1, r))
        + (IF get_is_reverse(h) THEN get_length(G, h) ELSE 0)

\* (i, j, d) is a term between two steps of path p
IsTermOfPath(p, i, j, d) ==
    /\ p \in PathHandles(G)
    /\ d > 0
    /\ \E ra, rb \in 0..(Len(G.paths[p]) - 1) :
          /\ unpack_number(G.paths[p][ra + 1]) = i
          /\ unpack_number(G.paths[p][rb + 1]) = j
          /\ d = IAbs(TermOffset(p, ra) - TermOffset(p, rb))

\* C16: every term that is applied joins the handles of two steps of one
\* path, and d_ij > 0 is the distance between the steps' offsets in that
\* path, each taken at the end of the node when its handle is reverse.
C16_TermIsOfOnePath ==
    /\ \A w \in DOMAIN workers :
          workers[w].last = "term" =>
              IsTermOfPath(workers[w].path, workers[w].i, workers[w].j,
                           workers[w].d)
    /\ det.last = "applied" => IsTermOfPath(det.path, det.i, det.j, det.d)

\* a worker has applied a term of a path that visits a node in reverse
C16_AppliedTermWithReverseStep ==
    \E w \in DOMAIN workers :
        /\ workers[w].last = "term" /\ workers[w].pc = "tu_load"
        /\ \E r \in 1..Len(G.paths[workers[w].path]) :
              /\ get_is_reverse(G.paths[workers[w].path][r])
              /\ unpack_number(G.paths[workers[w].path][r]) = workers[w].j

\* C17: the concurrent driver's main thread joins every worker, then the
\* snapshot thread, then the controller, and only then copies X into the
\* result; the result is X as it then stands, and nothing writes X, the
\* snapshot list or the control state afterwards.
C17_JoinsThenReadsResult ==
    /\ [](~cfg.path_sgd_deterministic =>
            /\ main \in {"join_snapshot", "join_checker", "final", "returned"} =>
                  \A w \in DOMAIN workers : workers[w].pc = "exit"
            /\ main \in {"join_checker", "final", "returned"} =>
                  snapshot_thread.pc = "exit"
            /\ main \in {"final", "returned"} => checker.pc = "exit"
            /\ main = "returned" =>
                  X_final = [k \in 1..get_node_count(G) |-> X[k - 1]])
    /\ [][(~cfg.path_sgd_deterministic /\ main = "returned") =>
             UNCHANGED <<X, snapshots, term_updates, eta, Delta_max,
                         work_todo, iteration, X_final>>]_vars

\* a run of the concurrent driver whose workers moved X has returned
C17_ReturnedAfterUpdates ==
    /\ ~cfg.path_sgd_deterministic
    /\ main = "returned"
    /\ Len(workers) >= 1
    /\ X # InitialX(G)

(***************************************************************************)
(* Properties of the snapshots.                                            *)
(***************************************************************************)
\* X as a snapshot holds it
LayoutNow == [k \in 1..get_node_count(G) |-> X[k - 1]]

Min(a, b) == IF a < b THEN a ELSE b

\* C18: the deterministic driver with snapshot = true appends one snapshot
\* of X at the top of every outer iteration it executes except iteration
\* iter_max - 1: the first is the seeded layout, the k-th is X after k
\* completed iterations, and there are at most iter_max - 1 of them.
C18_SnapshotPerIterationButLast ==
    /\ []((cfg.path_sgd_deterministic /\ cfg.snapshot) =>
            /\ Len(snapshots) <= cfg.iter_max - 1
            /\ Len(snapshots) >= 1 => snapshots[1] = InitialLayout
            /\ main = "det_inner" =>
                  Len(snapshots) = Min(iteration + 1, cfg.iter_max - 1)
            /\ main = "det_outer" =>
                  Len(snapshots) = Min(iteration, cfg.iter_max - 1))
    /\ [][(cfg.path_sgd_deterministic /\ cfg.snapshot) =>
             IF main = "det_outer" /\ main' = "det_inner"
                /\ iteration < cfg.iter_max - 1
             THEN /\ snapshots' = Append(snapshots, LayoutNow)
                  /\ Len(snapshots) = iteration
             ELSE UNCHANGED snapshots]_vars

\* a second snapshot has been taken, of a layout the first iteration moved
C18_SecondSnapshotAfterUpdates ==
    /\ cfg.path_sgd_deterministic /\ cfg.snapshot
    /\ Len(snapshots) = 2
    /\ snapshots[2] # snapshots[1]
    /\ main = "returned"

\* C19: in the concurrent driver the snapshot thread appends at most one
\* snapshot per controller tick and none for the tick iteration = iter_max,
\* so a run never holds more than iter_max - 1 snapshots.
C19_SnapshotsBoundedBySchedule ==
    ~cfg.path_sgd_deterministic =>
        /\ Len(snapshots) <= iteration
        /\ Len(snapshots) <= cfg.iter_max - 1

\* C20: with snapshot = false neither driver appends to the snapshot list
\* it was given, and the order finalizer returns no snapshot ordering.
C20_NoSnapshotsWithoutFlag ==
    ~cfg.snapshot => (snapshots = <<>> /\ fin.snapshots = <<>>)

(***************************************************************************)
(* Properties relating the two drivers.                                    *)
(***************************************************************************)
\* what one inner step of the deterministic driver makes of the seeded
\* layout, the first rate and Delta_max = 0 when it applies the term (i, j, d)
FirstDetUpdate(i, j, d) == det_update(InitialX(G), etas[1], Zero, i, j, d)

\* worker w stands between the stores of its first update and the counter's
\* store; no other thread has written X, eta or Delta_max
LoneWorkerFirstUpdateStored(w) ==
    /\ ~cfg.path_sgd_deterministic /\ cfg.nthreads = 1
    /\ iteration = 0 /\ term_updates = 0
    /\ workers[w].pc = "tu_store"

C22_ScheduleIsLogLinear ==
    LET T    == cfg.iter_max
        peak == cfg.iter_with_max_learning_rate
    IN  (T >= 1 /\ peak < T) =>
          /\ Len(etas) = T
          /\ \A k \in 1..T : RGt(etas[k], Zero)
          /\ REq(etas[peak + 1], cfg.eta_max)
          /\ \A k \in 1..(T - 1) :
                IF k - 1 >= peak
                THEN REq(etas[k + 1], RMul[etas[k], cfg.decay])
                ELSE REq(etas[k], RMul[etas[k + 1], cfg.decay])
          /\ \A k \in 1..T : RLe(etas[k], etas[peak + 1])
          /\ peak = 0 => \A k \in 1..(T - 1) : RLe(etas[k + 1], etas[k])

\* C23: in the concurrent driver the learning rate is always a value eta[t]
\* of the schedule with 0 <= t < iter_max: the controller never reads the
\* schedule at index iter_max or beyond.
C23_ControllerReadsInsideSchedule ==
    ~cfg.path_sgd_deterministic =>
        /\ checker.pc = "store_eta" => iteration < cfg.iter_max
        /\ eta \in Range(etas)

(***************************************************************************)
(* Properties of the controller's ticks.                                   *)
(***************************************************************************)
\* C24: whenever the controller, having found work_todo true, polls the
\* counter and finds term_updates >= min_term_updates (equality included,
\* and so 0 updates with min_term_updates = 0), it takes a tick.
C24_TicksAtThreshold ==
    [][(CheckerPoll /\ term_updates >= cfg.min_term_updates)
           => checker'.pc = "tick"]_vars

\* the rate in force before the tick that makes iteration = n
RatesBeforeTick(n) == IF n <= 1 THEN {etas[1]} ELSE etas_at(n - 1)

\* C25: a controller tick first increments iteration; if iteration >
\* iter_max it clears work_todo; else if Delta_max <= delta it clears
\* work_todo; else it stores eta[iteration] into eta and then delta into
\* Delta_max; in every case it ends by storing 0 into term_updates.  A tick
\* that stops the run writes neither eta nor Delta_max, and iteration never
\* exceeds iter_max + 1.
C25_TickSteps ==
    /\ [](~cfg.path_sgd_deterministic =>
            /\ iteration <= cfg.iter_max + 1
            /\ checker.pc \in {"load_dmax", "store_eta", "store_dmax"} =>
                  (work_todo /\ iteration \in 1..cfg.iter_max)
            /\ checker.pc = "stop" => (work_todo /\ iteration >= 1)
            /\ (checker.pc = "reset" /\ work_todo) =>
                  eta \in etas_at(iteration)
            /\ ~work_todo => eta \in RatesBeforeTick(iteration))
    /\ [][~cfg.path_sgd_deterministic =>
            /\ iteration' # iteration =>
                  /\ checker.pc = "tick" /\ iteration' = iteration + 1
                  /\ UNCHANGED <<work_todo, eta, Delta_max, term_updates>>
            /\ (checker.pc = "tick" /\ checker'.pc # "tick") =>
                  /\ iteration' = iteration + 1
                  /\ checker'.pc =
                        IF iteration' > cfg.iter_max THEN "stop" ELSE "load_dmax"
            /\ (checker.pc = "load_dmax" /\ checker'.pc # "load_dmax") =>
                  checker'.pc =
                      IF RLe(Delta_max, cfg.delta) THEN "stop" ELSE "store_eta"
            /\ work_todo' # work_todo =>
                  /\ checker.pc = "stop" /\ checker'.pc = "reset" /\ ~work_todo'
                  /\ UNCHANGED <<eta, Delta_max, iteration>>
            /\ eta' # eta =>
                  /\ checker.pc = "store_eta" /\ checker'.pc = "store_dmax"
                  /\ eta' \in etas_at(iteration)
            /\ (checker.pc = "store_dmax" /\ checker'.pc # "store_dmax") =>
                  /\ Delta_max' = cfg.delta /\ checker'.pc = "reset"
            /\ (checker.pc = "reset" /\ checker'.pc # "reset") =>
                  /\ term_updates' = 0 /\ checker'.pc = "while"
                  /\ UNCHANGED <<eta, Delta_max, work_todo, iteration>>]_vars

\* the controller has ticked past iter_max: after ticks that installed a
\* rate and reset Delta_max, the last one has stopped the run and reset the
\* counter
C25_StoppedPastLastIteration ==
    /\ ~cfg.path_sgd_deterministic
    /\ cfg.iter_max >= 2
    /\ iteration = cfg.iter_max + 1
    /\ ~work_todo /\ term_updates = 0
    /\ checker.pc = "exit"

(***************************************************************************)
(* Properties of the threads' use of Delta_max and term_updates.           *)
(***************************************************************************)
\* C26: whenever the controller reads Delta_max <= delta at a tick, and so
\* stops the run for convergence, no update applied to X since its previous
\* read had |Delta| > delta, whatever the interleaving of the threads.
C26_ConvergenceStopSeesEveryUpdate ==
    [][(/\ ~cfg.path_sgd_deterministic
        /\ CheckerLoadDeltaMax
        /\ RLe(Delta_max, cfg.delta)) => ~applied_above_delta]_vars

\* C27: between two resets by the controller Delta_max never decreases,
\* whatever the interleaving of the workers: only the controller's store of
\* delta lowers it, so that once the publishes in flight are done it is at
\* least the largest |Delta| published since the reset.
C27_DeltaMaxOnlyGrowsBetweenResets ==
    [][(~cfg.path_sgd_deterministic /\ RLt(Delta_max', Delta_max)) =>
           (checker.pc = "store_dmax" /\ Delta_max' = cfg.delta)]_vars

\* C28: term_updates counts the updates applied since the controller's last
\* tick: every store of a worker raises it by one, for the update the worker
\* has just applied, and only the controller's reset lowers it, whatever
\* the interleaving of the increments and the reset.
C28_CounterCountsUpdates ==
    [][~cfg.path_sgd_deterministic =>
          /\ \A w \in DOMAIN workers :
                (workers[w].pc = "tu_store" /\ workers'[w].pc # "tu_store")
                    => term_updates' = term_updates + 1
          /\ term_updates' < term_updates =>
                (checker.pc = "reset" /\ term_updates' = 0)]_vars

(***************************************************************************)
(* Properties of the workers' unsynchronised writes to X.                  *)
(***************************************************************************)
\* no worker is between the two stores of an update
WorkersAtRest ==
    \A w \in DOMAIN workers :
        workers[w].pc \notin {"upd_i_store", "upd_j_load", "upd_j_store"}

\* C29: with a single worker no update to X is lost: each of its stores
\* writes the coordinate's current value moved by r_x, and between its
\* updates the coordinates, as long as they are numbers, sum to their
\* initial sum. (Two workers can lose an update:
\* C29_TwoWorkersLostAnUpdate.)
C29_LoneWorkerLosesNoUpdate ==
    /\ []((/\ cfg.nthreads = 1 /\ WorkersAtRest
           /\ \A n \in DOMAIN X : ~IsNaN(X[n])) =>
              REq(SumX(X, get_node_count(G)),
                  SumX(InitialX(G), get_node_count(G))))
    /\ [][cfg.nthreads = 1 =>
             \A w \in DOMAIN workers :
                /\ (workers[w].pc = "upd_i_store" /\ workers'[w].pc = "upd_j_load")
                      => X' = [X EXCEPT ![workers[w].i] =
                                            RSub[X[workers[w].i], workers[w].r_x]]
                /\ (workers[w].pc = "upd_j_store" /\ workers'[w].pc = "tu_load")
                      => X' = [X EXCEPT ![workers[w].j] =
                                            RAdd[X[workers[w].j], workers[w].r_x]]]_vars

\* two workers have run to their exit, every coordinate is a number, and the
\* coordinates no longer sum to their initial sum: a store of one worker
\* has overwritten an update of the other
C29_TwoWorkersLostAnUpdate ==
    /\ cfg.nthreads = 2
    /\ \A w \in DOMAIN workers :
          workers[w].pc = "exit" /\ workers[w].last = "applied"
    /\ \A k \in DOMAIN X : ~IsNaN(X[k])
    /\ SumX(X, get_node_count(G)) # SumX(InitialX(G), get_node_count(G))

(***************************************************************************)
(* Properties of the deterministic driver's outer loop.                    *)
(***************************************************************************)
\* C30: in a deterministic run with delta >= 0 the outer loop breaks at the
\* end of an iteration exactly when no update applied during it had
\* |Delta| > delta; otherwise iteration advances, and while an iteration is
\* left the next rate of the schedule is installed and Delta_max is reset
\* to delta. The inner loop of iteration t runs with eta = etas[t], and
\* only for t < iter_max.
C30_DetBreaksWhenNoUpdateAboveDelta ==
    /\ []((cfg.path_sgd_deterministic /\ main = "det_inner") =>
             /\ iteration < cfg.iter_max
             /\ eta = etas[iteration + 1])
    /\ [](cfg.path_sgd_deterministic => iteration <= cfg.iter_max)
    /\ [][(/\ cfg.path_sgd_deterministic
           /\ RLe(Zero, cfg.delta)
           /\ main = "det_inner" /\ main' # "det_inner") =>
             IF ~applied_above_delta
             THEN /\ main' = "final"
                  /\ UNCHANGED <<eta, Delta_max, iteration, X>>
             ELSE /\ main' = "det_outer"
                  /\ iteration' = iteration + 1
                  /\ iteration' < cfg.iter_max =>
                        /\ eta' = etas[iteration' + 1]
                        /\ Delta_max' = cfg.delta]_vars

\* a deterministic run has broken out of a later iteration than the first,
\* after an iteration that applied an update with |Delta| > delta, and
\* with iterations of the schedule left
C30_BrokeAfterContinuing ==
    /\ cfg.path_sgd_deterministic
    /\ main = "final"
    /\ iteration >= 1 /\ iteration < cfg.iter_max
    /\ det.last = "applied"
    /\ eta = etas[iteration + 1]
    /\ Delta_max = cfg.delta

(***************************************************************************)
(* Properties of the deterministic driver's inner loop.                    *)
(***************************************************************************)
\* C31: every completed outer iteration of a deterministic run has applied
\* exactly min_term_updates updates to X (term_updates counts the updates
\* applied since the iteration began), and a draw that hits a skip condition
\* does not use up one of the iteration's min_term_updates slots.
C31_IterationAppliesAllItsUpdates ==
    /\ [][DetEndIteration => term_updates = cfg.min_term_updates]_vars
    /\ [][DetSkip => term_update' = term_update]_vars

(***************************************************************************)
(* Properties of the order finalizer's comparator and triples.             *)
(***************************************************************************)
\* lexicographic order on (component rank, coordinate, handle integer)
LexicographicLess(a, b) ==
    \/ a.weak_component < b.weak_component
    \/ /\ a.weak_component = b.weak_component
       /\ \/ RLt(a.pos, b.pos)
          \/ REq(a.pos, b.pos) /\ a.handle < b.handle

\* C32: on the triples handed to std::sort the comparator is lexicographic
\* order on (component rank, coordinate, handle integer): no two triples
\* are each less than the other, and a triple less than another has a
\* component rank that is not larger.
C32_ComparatorIsLexicographic ==
    fin.pc = "sort" =>
        \A a, b \in Range(fin.handle_layout) :
            /\ ~(handle_layout_less(a, b) /\ handle_layout_less(b, a))
            /\ handle_layout_less(a, b) => a.weak_component <= b.weak_component
            /\ handle_layout_less(a, b) <=> LexicographicLess(a, b)

\* C33: when the finalizer reads the component map to build its triples the
\* map holds one entry per node, and the coordinate and the component rank
\* paired with each handle h are those at h's node index, X[id(h) - 1] and
\* C[id(h) - 1], the index the drivers used for h.
C33_TriplesPairByNodeIndex ==
    /\ fin.pc = "layout" =>
          fin.weak_components_map.size = get_node_count(G)
    /\ fin.pc = "sort" =>
          \A k \in 1..Len(fin.handle_layout) :
              LET t == fin.handle_layout[k]
              IN  /\ t.pos = X_final[unpack_number(t.handle) + 1]
                  /\ t.weak_component =
                        weak_components_map(G)[unpack_number(t.handle) + 1]

(***************************************************************************)
(* Properties of the sampler's second position.                            *)
(***************************************************************************)
\* the terms either driver can draw on the run's input
DrawnTerms == {t \in draws.worker \cup draws.det : t.kind = "term"}

\* the draws of the run's input whose Zipf value exceeds the room on the
\* side the flip selects and is reduced to it, and that yield term t
ReducedDrawsOf(t) ==
    {dr \in Draws(G, cfg) :
        /\ worker_term(G, cfg, dr[1], dr[2], dr[3], dr[4]) = t
        /\ IF dr[4] = 1 THEN dr[3] > t.pos_a
           ELSE dr[3] > get_path_length(G, t.path) - 1 - t.pos_a}

\* C34: for every draw that yields a term, in the three sampling modes and
\* for every Zipf value in [1, space], both positions lie inside the path,
\* 0 <= pos <= L(path) - 1, so the room path_len - pos_a does not wrap
\* and get_step_at_position is queried inside the path; the steps of a
\* term in progress are steps of its path.
C34_SecondPositionInsidePath ==
    /\ \A t \in DrawnTerms :
          LET L == get_path_length(G, t.path)
          IN  /\ 0 <= t.pos_a /\ t.pos_a <= L - 1
              /\ 0 <= t.pos_b /\ t.pos_b <= L - 1
              /\ t.step_b[1] = t.path
              /\ t.step_b[2] \in 0..(Len(G.paths[t.path]) - 1)
    /\ \A w \in DOMAIN workers :
          workers[w].path # 0 =>
              \E t \in DrawnTerms :
                  /\ workers[w].path = t.path
                  /\ workers[w].i = unpack_number(t.term_i)
                  /\ workers[w].j = unpack_number(t.term_j)
                  /\ t.pos_b \in 0..(get_path_length(G, t.path) - 1)
    /\ det.last = "applied" =>
          \E t \in DrawnTerms :
              /\ det.path = t.path
              /\ det.i = unpack_number(t.term_i)
              /\ det.j = unpack_number(t.term_j)
              /\ t.pos_b \in 0..(get_path_length(G, t.path) - 1)

\* a driver has applied a term whose Zipf value exceeded the room and was
\* reduced to it
C34_AppliedTermOfReducedDraw ==
    \E t \in DrawnTerms :
        /\ ReducedDrawsOf(t) # {}
        /\ \/ /\ det.last = "applied"
              /\ det.path = t.path /\ det.d = t.d
              /\ det.i = unpack_number(t.term_i)
              /\ det.j = unpack_number(t.term_j)
           \/ \E w \in DOMAIN workers :
                 /\ workers[w].pc = "tu_store"
                 /\ workers[w].path = t.path /\ workers[w].d = t.d
                 /\ workers[w].i = unpack_number(t.term_i)
                 /\ workers[w].j = unpack_number(t.term_j)

(***************************************************************************)
(* Properties of the node-uniform pick.                                    *)
(***************************************************************************)
\* the step the code reads at index q of the np vectors
StepAtNp(Gr, q) == <<npi_iv(Gr, q), nr_iv(Gr, q) - 1>>

\* the node-uniform pick on graph Gr under the flags and space of c: what
\* C35 states, for every drawn node rank and every draw on it
NodePickIsAStepOnTheNode(Gr, c) ==
    \A pos \in Dis(Gr, c) :
        LET node_index == np_bv_select(Gr, pos)
            next_node_index ==
                IF pos = get_node_count(Gr) THEN np_bv_size(Gr)
                ELSE np_bv_select(Gr, pos + 1)
            hit == next_node_index - node_index - 1
        IN  /\ pos \in 1..get_node_count(Gr)
            /\ hit = HitNumPaths(Gr, pos)
            /\ \A k \in 1..hit :
                  /\ node_index < node_index + k
                  /\ node_index + k < next_node_index
                  /\ np_bv(Gr, node_index + k) = 0
                  /\ get_id(get_handle_of_step(Gr, StepAtNp(Gr, node_index + k)))
                        = pos
            /\ {StepAtNp(Gr, node_index + k) : k \in 1..hit} = StepsOnNode(Gr, pos)
            /\ \A s \in StepsOnNode(Gr, pos) :
                  \E dr \in Draws(Gr, c) :
                      dr[1] = pos /\ StepAtNp(Gr, node_index + dr[2]) = s
            /\ \A dr \in {d \in Draws(Gr, c) : d[1] = pos} :
                  \A t \in {worker_term(Gr, c, dr[1], dr[2], dr[3], dr[4]),
                            det_term(Gr, c, dr[1], dr[2], dr[3], dr[4])} :
                      IF hit = 0 THEN t = Skip("no_paths")
                      ELSE t.kind = "term" =>
                              /\ get_id(t.term_i) = pos
                              /\ t.step_a = StepAtNp(Gr, node_index + dr[2])

\* the inputs of the runs in node-uniform mode, and the pick on each
NodeSamplerKeys ==
    {k \in SamplerKeys \cup {SamplerKey(c) : c \in ZipfConfigs} :
        worker_branch(k) = "nodes"}

NodePickTable ==
    [k \in NodeSamplerKeys |-> NodePickIsAStepOnTheNode(Graphs[k.g], k)]

\* C35: in node-uniform mode, for a drawn node rank pos in [1, N] whose
\* node carries hit > 0 path steps, every index node_index + k, k in
\* [1, hit], lies strictly between the node's boundary and the next one,
\* is not a boundary, and holds a step on the drawn node; the indices hold
\* every step on that node, and a term drawn there has its first handle on
\* the drawn node, in both drivers.
C35_NodePickIsAStepOnTheNode ==
    worker_branch(cfg) = "nodes" => NodePickTable[SamplerKey(cfg)]

\* a driver in node-uniform mode has applied a term it drew on a node that
\* two path steps share
C35_AppliedTermOfSharedNode ==
    /\ worker_branch(cfg) = "nodes"
    /\ \/ /\ det.last = "applied"
          /\ HitNumPaths(G, det.i + 1) >= 2
       \/ \E w \in DOMAIN workers :
             /\ workers[w].pc = "tu_store"
             /\ HitNumPaths(G, workers[w].i + 1) >= 2

(***************************************************************************)
(* Properties of the workers' shutdown.                                    *)
(***************************************************************************)
\* C36: once the controller has set work_todo to false it stays false, and
\* each worker stores at most one further update into X, the one of the
\* loop iteration it was in when the flag changed; a worker enters the
\* sampling of a term only from a loop test that read work_todo = true, a
\* loop test that reads false takes it to its exit, and it stays there.
C36_AtMostOneUpdateAfterStop ==
    /\ [](\A w \in DOMAIN workers : updates_after_stop[w] <= 1)
    /\ [][/\ ~work_todo => ~work_todo'
          /\ \A w \in DOMAIN workers :
                /\ (workers[w].pc # "sample" /\ workers'[w].pc = "sample")
                      => (work_todo /\ workers[w].pc = "while")
                /\ (~work_todo /\ workers[w].pc = "while"
                        /\ workers'[w].pc # "while")
                      => workers'[w].pc = "exit"
                /\ workers[w].pc = "exit" => workers'[w] = workers[w]]_vars

\* a worker has exited after storing, with work_todo already false, the
\* update it was in when the flag changed
C36_ExitedAfterUpdateInFlight ==
    \E w \in DOMAIN workers :
        /\ workers[w].pc = "exit"
        /\ workers[w].last = "applied"
        /\ updates_after_stop[w] = 1
        /\ ~work_todo

(***************************************************************************)
(* Properties of the update's effect on the distance of its endpoints.     *)
(***************************************************************************)
\* (1 - mu) * mag + mu * d_ij
ContractedDistance(mu, mag, d) ==
    RAdd[RMul[RSub[One, mu], mag], RMul[mu, Int2R(d)]]

SameSign(a, b) ==
    \/ RLt(Zero, a) /\ RLt(Zero, b)
    \/ RLt(a, Zero) /\ RLt(b, Zero)

Between(x, a, b) ==
    \/ RLe(a, x) /\ RLe(x, b)
    \/ RLe(b, x) /\ RLe(x, a)

\* the difference newdx an update leaves between its endpoints, given the
\* difference dx it found: same sign, at distance (1 - mu) * |dx| + mu * d,
\* between |dx| and d
MovesTowardTermDistance(dx, newdx, mu, d) ==
    /\ SameSign(dx, newdx)
    /\ REq(RAbs(newdx), ContractedDistance(mu, RAbs(dx), d))
    /\ Between(RAbs(newdx), RAbs(dx), Int2R(d))

Four == <<4, 1>>

RevisitConfigs ==
    {c \in [g                 : {5},
            use               : {<<1>>},
            sample_from_paths : BOOLEAN,
            sample_from_nodes : BOOLEAN,
            iter_max          : {1, 2},
            iter_with_max_learning_rate : {0},
            min_term_updates  : {1, 2},
            delta             : {Zero},
            eta_max           : {Four},
            decay             : {<<1, 2>>},
            space             : {MaxZipfSpace},
            nthreads          : {1},
            snapshot          : {FALSE},
            path_sgd_deterministic : BOOLEAN] :
        ~(c.sample_from_paths /\ c.sample_from_nodes)}

RevisitInit ==
    \E c \in RevisitConfigs :
        /\ cfg = c
        /\ main = IF c.path_sgd_deterministic THEN "det_outer" ELSE "launch"
        /\ X = InitialX(Graphs[c.g])
        /\ term_updates = 0
        /\ eta = path_linear_sgd_schedule(c.eta_max, c.decay, c.iter_max,
                                          c.iter_with_max_learning_rate)[1]
        /\ Delta_max = Zero
        /\ work_todo = TRUE
        /\ iteration = 0
        /\ snapshots = <<>>
        /\ fatal = FALSE
        /\ checker = [pc |-> "idle"]
        /\ snapshot_thread = [pc |-> "idle", iter |-> 0, X_iter |-> <<>>]
        /\ workers = [w \in 1..(IF c.path_sgd_deterministic THEN 0 ELSE c.nthreads)
                        |-> IdleWorker]
        /\ term_update = 0
        /\ det = IdleDet
        /\ X_final = <<>>
        /\ draws = [worker |-> WorkerOutcomes(Graphs[c.g], SamplerKey(c)),
                    det    |-> DetOutcomes(Graphs[c.g], SamplerKey(c))]
        /\ fin = IdleFin
        /\ applied_above_delta = FALSE
        /\ updates_after_stop = [w \in DOMAIN workers |-> 0]
        /\ extract = IdleExtract

RevisitSpec == RevisitInit /\ [][ZipfNext]_vars

(***************************************************************************)
(* Properties of the term whose two steps are on the same node.            *)
(***************************************************************************)
\* mu * |1e-9 - d_ij| / 2
SameNodeDelta(mu, d) ==
    RDiv[RMul[mu, RAbs(RSub[dx_guard, Int2R(d)])], Two]

\* the positions of a worker between its draw of the differences and the
\* end of its update
AfterDifference == {"dmax_load", "dmax_store", "upd_i_load", "upd_i_store",
                    "upd_j_load", "upd_j_store", "tu_load", "tu_store"}

\* what the lone worker's term of one node does: numeric tells whether the
\* statement is limited to rates that are numbers
SameNodeWorkerUpdate(w, numeric) ==
    /\ (/\ workers[w].pc \in AfterDifference
        /\ numeric => ~IsNaN(workers[w].mu)) =>
           /\ workers[w].d > 0
           /\ workers[w].dx = dx_guard
           /\ REq(RAbs(workers[w].Delta),
                  SameNodeDelta(workers[w].mu, workers[w].d))
    /\ (/\ workers[w].pc \in {"tu_load", "tu_store"}
        /\ numeric => ~IsNaN(workers[w].mu)) =>
           X = InitialX(G)

SameNodeWorkerStep(w, numeric) ==
    /\ (/\ WorkerDeltaMaxLoad(w)
        /\ workers'[w].pc = "upd_i_load"
        /\ numeric => ~IsNaN(workers[w].mu)) =>
           RLe(RAbs(workers[w].Delta), Delta_max)
    /\ (/\ WorkerDeltaMaxStore(w)
        /\ numeric => ~IsNaN(workers[w].mu)) =>
           REq(Delta_max', SameNodeDelta(workers[w].mu, workers[w].d))
    \* the count the worker loaded, plus one, is what it stores
    /\ WorkerTermUpdatesLoad(w) => workers'[w].tu = term_updates + 1
    /\ WorkerTermUpdatesStore(w) => term_updates' = workers[w].tu

SameNodeDetStep(numeric) ==
    (/\ DetApply /\ det'.i = det'.j
     /\ numeric => ~IsNaN(eta)) =>
        LET mu == worker_mu[eta, det'.d]
        IN  /\ det'.d > 0
            /\ X' = X
            /\ term_updates' = term_updates + 1
            /\ REq(RAbs(det'.Delta), SameNodeDelta(mu, det'.d))
            /\ RLe(RAbs(det'.Delta), Delta_max')
            /\ Delta_max' \in {Delta_max, RAbs(det'.Delta)}

C39_InitialRateIsScheduleMaximum ==
    (/\ main \in {"launch", "det_outer"}
     /\ iteration = 0 /\ term_updates = 0 /\ term_update = 0) =>
        /\ cfg.iter_with_max_learning_rate \in 0..(cfg.iter_max - 1)
        /\ eta = etas[1]
        /\ \A k \in DOMAIN etas : RLe(etas[k], eta)

(***************************************************************************)
(* odgi extract -q pos1-pos2 (main_extract): the range is parsed, the      *)
(* nodes are walked in graph order with a running offset, and the nodes    *)
(* whose bit is set in keep_bv are created in the subgraph.  Node ids are  *)
(* compacted, 1..N, so that shift = min_node_id = 1.                       *)
(***************************************************************************)
\* most nodes of an extracted graph
MaxExtractNodes == 3

\* longest node of an extracted graph
MaxNodeLength == 2

\* largest position of a pangenomic range
MaxExtractPos == 5

\* the node lengths of the graphs odgi extract is run on, in graph order
ExtractGraphs ==
    UNION {[1..n -> 1..MaxNodeLength] : n \in 1..MaxExtractNodes}

\* the layout drivers are not running
LayoutIdle ==
    LET c == CHOOSE c \in DetConfigs : TRUE
    IN  /\ cfg = c
        /\ main = "idle"
        /\ X = InitialX(Graphs[c.g])
        /\ term_updates = 0
        /\ eta = Zero
        /\ Delta_max = Zero
        /\ work_todo = FALSE
        /\ iteration = 0
        /\ snapshots = <<>>
        /\ fatal = FALSE
        /\ checker = [pc |-> "idle"]
        /\ snapshot_thread = [pc |-> "idle", iter |-> 0, X_iter |-> <<>>]
        /\ workers = <<>>
        /\ term_update = 0
        /\ det = IdleDet
        /\ X_final = <<>>
        /\ draws = [worker |-> {}, det |-> {}]
        /\ fin = IdleFin
        /\ applied_above_delta = FALSE
        /\ updates_after_stop = <<>>

LayoutFrame ==
    UNCHANGED <<cfg, main, X, term_updates, eta, Delta_max, work_todo,
                iteration, snapshots, fatal, checker, snapshot_thread,
                workers, term_update, det, X_final, draws, fin,
                applied_above_delta, updates_after_stop>>

\* the arguments as given: lengths of the nodes and the two numbers of -q
ExtractInit ==
    /\ LayoutIdle
    /\ \E lens \in ExtractGraphs, pos1, pos2 \in 0..MaxExtractPos :
          extract = [pc       |-> "parse",
                     lengths  |-> lens,
                     first    |-> pos1,
                     second   |-> pos2,
                     visited  |-> 0,
                     len      |-> 0,
                     keep_bv  |-> {},
                     subgraph |-> {}]

\* stoull(splitted[0]) > stoull(splitted[1]) is an error, return 1
ExtractParseRange ==
    /\ extract.pc = "parse"
    /\ extract' = [extract EXCEPT
                      !.pc = IF extract.first > extract.second
                             THEN "error" ELSE "walk"]
    /\ LayoutFrame

\* the for_each_handle callback on the next node
ExtractVisit ==
    /\ extract.pc = "walk"
    /\ extract.visited < Len(extract.lengths)
    /\ LET id    == extract.visited + 1
           shift == 1
           hl    == extract.lengths[id]
           len   == extract.len
       IN  extract' = [extract EXCEPT
                          !.keep_bv =
                              IF len <= extract.second
                                     /\ extract.first <= len + hl
                              THEN @ \cup {id - shift} ELSE @,
                          !.len = len + hl,
                          !.visited = id]
    /\ LayoutFrame

\* for (auto id_shifted : keep_bv) subgraph.create_handle(..., id_shifted + shift)
ExtractCreateHandles ==
    /\ extract.pc = "walk"
    /\ extract.visited = Len(extract.lengths)
    /\ extract' = [extract EXCEPT
                      !.pc = "done",
                      !.subgraph = {id_shifted + 1 : id_shifted \in extract.keep_bv}]
    /\ LayoutFrame

ExtractNext ==
    \/ ExtractParseRange
    \/ ExtractVisit
    \/ ExtractCreateHandles

ExtractSpec == ExtractInit /\ [][ExtractNext]_vars

RECURSIVE ExtractOffset(_, _)
\* the pangenome offset of the first base of node id
ExtractOffset(lens, id) ==
    IF id = 1 THEN 0 ELSE ExtractOffset(lens, id - 1) + lens[id - 1]

\* C40: after odgi extract -q pos1-pos2 a node is in the subgraph if and
\* only if its bases [len, len + l) of the pangenome sequence intersect the
\* closed range [pos1, pos2]; a node wholly before pos1 or wholly after
\* pos2 is not kept.
C40_KeptIffIntersectsRange ==
    extract.pc = "done" =>
        \A id \in 1..Len(extract.lengths) :
            LET len == ExtractOffset(extract.lengths, id)
                l   == extract.lengths[id]
            IN  id \in extract.subgraph
                   <=> \E base \in len..(len + l - 1) :
                          extract.first <= base /\ base <= extract.second

====
